---- MODULE Spec2Model ----
(***************************************************************************)
(* MeetAct: the action-item pipeline.                                      *)
(*   - Publisher  (supabase/functions/push-to-jira/index.ts, serve handler)*)
(*   - Extractor  (supabase/functions/extract-actions/index.ts)            *)
(*   - Transcriber (the transcription handler, Deno.serve, in the same     *)
(*     file as the Publisher)                                              *)
(*   - Upload view (src/pages/Upload.tsx, processTranscript)               *)
(*   - the relational store (supabase/migrations/*.sql)                    *)
(* External services (identity provider, tracker, inference gateway, the   *)
(* store's transport) answer nondeterministically.                         *)
(***************************************************************************)
EXTENDS Integers, Sequences, FiniteSets, TLC

VARIABLES
    action_items,   \* table action_items: sequence of rows in creation order
    meetings,       \* table meetings: meeting id -> row
    integrations,   \* table integrations, rows of service 'jira': user -> row
    credWrites,     \* number of credential rows written so far (bounded)
    pub_pc,         \* Publisher handler position
    pub_user,       \* Publisher: user resolved by auth.getUser()
    pub_items,      \* Publisher: request body actionItems
    pub_integration,\* Publisher: local `integration` (result of the lookup)
    pub_idx,        \* Publisher: position of the for..of loop (1-based)
    createdIssues,  \* Publisher: local list createdIssues
    errors,         \* Publisher: local list errors
    pub_resp,       \* Publisher: the HTTP response sent
    calls,          \* tracker: log of issue-creation calls, in issue order
    ext_pc,         \* Extractor handler position
    ext_req,        \* Extractor: the request (auth, transcript, meetingId)
    ai_reply,       \* Extractor: what the inference call returned
    ext_items,      \* Extractor: local itemsToInsert
    ext_resp,       \* Extractor: the HTTP response sent
    ai_calls,       \* inference gateway: number of calls received
    insert_calls,   \* store: log of the insert statements on action_items
    tr_pc,          \* Transcriber handler position
    usedModel,      \* Transcriber: local usedModel
    tr_req,         \* Transcriber: the request (auth and body)
    tr_bytes,       \* Transcriber: size in bytes of the audio resolved
    tr_encoded,     \* Transcriber: length of local encodedAudio (base64 chars)
    geminiText,     \* Transcriber: local geminiText
    tr_transcript,  \* Transcriber: local transcript (resolved, trimmed)
    tr_items,       \* Transcriber: local actionItems (normalized candidates)
    tr_target,      \* Transcriber: id of the meeting located by audio_url
    tr_resp,        \* Transcriber: the HTTP response sent
    gen_calls,      \* inference service: log of the generate calls, in order
    extraction,     \* per meeting: how the extraction step of each flow ended
    up_pc,          \* Upload view: position of processTranscript
    up_user,        \* Upload view: the signed-in user
    transcriptText, \* Upload view: local transcriptText
    audioUrl,       \* Upload view: local audioUrl
    up_meeting,     \* Upload view: id of the meeting record it created
    isProcessing,   \* Upload view: state isProcessing
    up_toast,       \* Upload view: the last toast shown
    uploads,        \* number of pipeline runs started (bounded)
    view_fetch,     \* per meeting view: progress of fetchMeetingData
    joined,         \* per meeting view: its channel subscription is established
    shown,          \* per meeting view: the route's meeting id (NULL: not mounted)
    subscribed,     \* per meeting view: meeting ids of its channels on the client
    auth_user,      \* AuthProvider: state user
    auth_session,   \* AuthProvider: state session
    loading,        \* AuthProvider: state loading
    cache,          \* localStorage item meetact.session.cache
    cachedSession,  \* AuthProvider effect: const cachedSession
    stored,         \* the auth client's own session
    init_pc,        \* AuthProvider effect: position of initSession
    out_pc,         \* AuthProvider: position of signOut
    signIns,        \* number of sign-ins after load (bounded)
    signedOut,      \* signOut has completed and no sign-in event came since
    channel,        \* per meeting view: change events broadcast, not yet handled
    missed,         \* views that were open but not joined when an event went out
    snapshot,       \* per meeting view: rows the item query returned, in flight
    actionItems,    \* per meeting view: state actionItems
    edit,           \* per meeting view: the update of handleUpdateItem in flight
    update_calls,   \* store: log of the update statements the views issued
    export_props,   \* ExportPanel: props actionItems and selectedItems
    json            \* ExportPanel: text of the file exportAsJSON downloads

storeVars == <<action_items, meetings, integrations, credWrites>>
pubVars == <<pub_pc, pub_user, pub_items, pub_integration, pub_idx,
             createdIssues, errors, pub_resp, calls>>
extVars == <<ext_pc, ext_req, ai_reply, ext_items, ext_resp, ai_calls,
             insert_calls>>
trVars == <<tr_pc, tr_req, tr_bytes, tr_encoded, geminiText, tr_transcript,
            tr_items, tr_target, tr_resp, gen_calls, usedModel>>
upVars == <<up_pc, up_user, transcriptText, audioUrl, up_meeting, isProcessing,
            up_toast, uploads>>
navVars == <<shown, subscribed>>
authVars == <<auth_user, auth_session, loading, cache, cachedSession, stored, init_pc,
              out_pc, signIns, signedOut>>
viewLocals == <<view_fetch, joined, snapshot, actionItems, edit, update_calls, navVars,
               authVars>>
exportVars == <<export_props, json>>
viewVars == <<viewLocals, channel, missed, exportVars>>
quietVars == <<extraction, upVars, viewLocals, exportVars>>
flowVars == <<extraction, upVars, viewVars>>
vars == <<storeVars, pubVars, extVars, trVars, flowVars>>

----------------------------------------------------------------------------
\* Bounds of the model.
MaxStarts == 2        \* pipeline runs of the Upload view, one after the other
MaxUploads == 1       \* pipeline runs of the Upload view
MaxRuns == 2          \* extraction requests made one after the other
MaxEdits == 2         \* inline edits made in the meeting views
MaxBatch == 2        \* longest actionItems batch of a publish request
MaxCredWrites == 1   \* credential rows written in one behaviour
MaxSignIns == 2      \* sign-ins after the page has loaded
MaxCandidates == 1   \* longest candidate array in a model reply

----------------------------------------------------------------------------
\* Values.
NULL == "null"                       \* JS null / undefined, SQL NULL
Users == {"u1", "u2"}
MeetingIds == {"m1", "m2"}
Priorities == {"Low", "Medium", "High"}          \* enum action_priority
Statuses == {"Open", "In Progress", "Done"}      \* enum action_status

RECURSIVE SeqsUpTo(_, _)
SeqsUpTo(S, n) ==
    IF n = 0 THEN {<<>>}
    ELSE LET shorter == SeqsUpTo(S, n - 1)
         IN  shorter \cup {Append(s, x) : s \in {t \in shorter : Len(t) = n - 1}, x \in S}

Range(s) == {s[k] : k \in 1..Len(s)}

\* jira_issue_key IS NULL; a key the tracker returned is <<"PROJECT", n>>.
NoKey == <<>>

\* A row of action_items. confidence is kept in hundredths (DECIMAL(3,2));
\* created_at (DEFAULT now()) is the time of the statement that inserted the
\* row, at most 0 for the rows of the store before the requests of this
\* model.
ItemRow(id, user, meeting, task, priority, status, confidence) ==
    [id |-> id, user_id |-> user, meeting_id |-> meeting, action_item |-> task,
     owner |-> NULL, owner_email |-> NULL, deadline |-> NULL,
     priority |-> priority, status |-> status, confidence |-> confidence,
     notes |-> NULL, jira_issue_key |-> NoKey, created_at |-> 0]

\* The store before the requests of this model: u1 owns meeting m1 with two
\* items, u2 owns meeting m2 with one item.
InitialItems ==
    << [ItemRow(1, "u1", "m1", "task-a", "High", "Open", 90) EXCEPT !.created_at = -1],
       ItemRow(2, "u1", "m1", "task-b", "Low", "In Progress", 60),
       ItemRow(3, "u2", "m2", "task-c", "Medium", "Done", 100) >>

InitialMeetings ==
    [m \in MeetingIds |->
        [user_id |-> IF m = "m1" THEN "u1" ELSE "u2",
         transcript |-> "text", audio_url |-> "a1", created_at |-> 0,
         processed_at |-> NULL]]

\* The local ids publish requests name: one item of u1 and one of u2, so
\* every caller has an item it owns and one it does not.
BatchIds == {1, 3}

----------------------------------------------------------------------------
\* Integration credentials.

CredFields == {"domain", "email", "apiToken", "projectKey"}

\* access_token holds a serialized structure; the strings below name the
\* fields that are present in it.
TokenStrings == {"all", "no-projectKey"}

\* JSON.parse(access_token): the fields the stored blob carries.
BlobFields(tok) ==
    CASE tok = NULL -> {}
      [] tok = "all" -> CredFields
      [] tok = "no-projectKey" -> CredFields \ {"projectKey"}

\* expires_at relative to the handler's `new Date()` (NULL: no expiry).
Expiries == {NULL, "past", "future"}

NoRow == [present |-> FALSE, access_token |-> NULL, cloud_id |-> NULL, expires_at |-> NULL]

CredRows ==
    [present : {TRUE}, access_token : TokenStrings \cup {NULL},
     cloud_id : {NULL, "acme"}, expires_at : Expiries]


\* Settings.connectJira: every form field must be non-empty after
\* normalisation; then the row is upserted on (user_id, service) with the
\* serialized credentials and cloud_id = domain (expires_at is not written).
connectJira(u, filled) ==
    /\ pub_pc = "idle"
    /\ credWrites < MaxCredWrites
    /\ IF filled = CredFields
       THEN /\ integrations' = [integrations EXCEPT ![u] =
                    [present |-> TRUE, access_token |-> "all", cloud_id |-> "acme",
                     expires_at |-> integrations[u].expires_at]]
            /\ credWrites' = credWrites + 1
       ELSE UNCHANGED <<integrations, credWrites>>
    /\ UNCHANGED <<action_items, meetings, pubVars, extVars, trVars, flowVars>>

\* Settings.disconnectJira: deletes the row.
disconnectJira(u) ==
    /\ pub_pc = "idle"
    /\ integrations[u].present
    /\ integrations' = [integrations EXCEPT ![u] = NoRow]
    /\ UNCHANGED <<action_items, meetings, credWrites, pubVars, extVars, trVars, flowVars>>

\* Any other writer of the user's own integrations row (an earlier client,
\* an OAuth flow): the table admits NULL columns and an expiry, and the
\* access policy lets a user write its own row.
StoreCredential(u, row) ==
    /\ pub_pc = "idle"
    /\ credWrites < MaxCredWrites
    /\ integrations' = [integrations EXCEPT ![u] = row]
    /\ credWrites' = credWrites + 1
    /\ UNCHANGED <<action_items, meetings, pubVars, extVars, trVars, flowVars>>

----------------------------------------------------------------------------
\* Publisher: push-to-jira.

\* The Authorization header of a request: absent, a token the identity
\* provider rejects, or the token of a user.
AuthValues == {"none", "invalid"} \cup Users

\* supabase.auth.getUser(): the user of the bearer token, or none.
GetUser(auth) == IF auth \in Users THEN auth ELSE NULL

\* The meeting views of this model show meeting m1 to its owner u1.
Views == {"v1", "v2"}
ViewMeeting == "m1"
ViewUser == "u1"

\* A change event of the table, as the subscription callback receives it.
ChangeEvent(eventType, row) == [eventType |-> eventType, new |-> row]

\* The rows of new that old does not hold.
ChangedRows(old, new) == SelectSeq(new, LAMBDA row : row \notin Range(old))

\* The publication supabase_realtime sends each written row to the joined
\* channels whose filter (meeting_id=eq.id) it matches and whose user may
\* read it; a view that is open but not yet joined does not get the event.
Broadcast(rows, eventType) ==
    LET Seen(ids) == SelectSeq(rows, LAMBDA row : /\ row.meeting_id \in ids
                                                  /\ row.user_id = ViewUser)
        Sent(ids) == [k \in 1..Len(Seen(ids)) |-> ChangeEvent(eventType, Seen(ids)[k])]
    IN  /\ channel' = [v \in Views |-> channel[v] \o Sent(subscribed[v])]
        /\ missed' = missed \cup {v \in Views : /\ Sent({shown[v]}) # <<>>
                                                /\ view_fetch[v] # "closed"
                                                /\ ~joined[v]}

\* One element of the request's actionItems, as ExportPanel.pushToJira
\* builds it from the item it displays.
BatchItem(id) ==
    [id |-> id, summary |-> InitialItems[id].action_item,
     priority |-> InitialItems[id].priority]

Batches == SeqsUpTo({BatchItem(i) : i \in BatchIds}, MaxBatch)

ErrorResponse(status, error, message) ==
    [status |-> status, error |-> error, message |-> message, success |-> FALSE,
     created |-> <<>>, has_errors |-> FALSE, errors |-> <<>>]

NoResponse == ErrorResponse(0, NULL, NULL)

\* A lookup without the user_id filter: any stored credential is found.
LookupAnyUser(user, queryFails) ==
    IF queryFails \/ \A u \in Users : ~integrations[u].present
    THEN NoRow
    ELSE integrations[CHOOSE u \in Users : integrations[u].present]

\* .from("integrations").select("*").eq("user_id", user.id)
\*   .eq("service", "jira").single(): the row, or no data when there is no
\* row or the query fails.
LookupIntegration(user, queryFails) ==
    IF queryFails THEN NoRow ELSE integrations[user]

\* A handler that does not look at expires_at.
TokenNeverExpired(integration) == FALSE

\* integration.expires_at && new Date(integration.expires_at) < new Date()
TokenExpired(integration) == integration.expires_at = "past"

\* !accessToken || !cloudId  (the only structural check the handler makes)
InvalidConfiguration(integration) ==
    integration.access_token = NULL \/ integration.cloud_id = NULL

\* The handler up to the loop: the response it returns early, or NoResponse
\* when it goes on to create issues.
EarlyResponse(batch, auth, integration) ==
    IF Len(batch) = 0
        THEN ErrorResponse(400, "No action items provided", NULL)
    ELSE IF auth = "none" \/ GetUser(auth) = NULL
        THEN ErrorResponse(401, "Unauthorized", NULL)
    ELSE IF ~integration.present
        THEN ErrorResponse(400, "Jira integration not found",
                           "Please connect your Jira account in settings first.")
    ELSE IF TokenExpired(integration)
        THEN ErrorResponse(401, "Jira token expired",
                           "Please reconnect your Jira account.")
    ELSE IF InvalidConfiguration(integration)
        THEN ErrorResponse(400, "Invalid Jira integration configuration", NULL)
    ELSE NoResponse

PublishBegin(auth, batch, queryFails) ==
    /\ pub_pc = "idle"
    /\ LET user == IF Len(batch) = 0 THEN NULL ELSE GetUser(auth)
           integration == IF user = NULL THEN NoRow
                          ELSE LookupIntegration(user, queryFails)
           early == EarlyResponse(batch, auth, integration)
       IN  /\ pub_user' = user
           /\ pub_items' = batch
           /\ pub_integration' = integration
           /\ pub_resp' = early
           /\ pub_pc' = IF early = NoResponse THEN "loop" ELSE "done"
    /\ pub_idx' = 1
    /\ UNCHANGED <<createdIssues, errors, calls, storeVars, extVars, trVars, flowVars>>

\* priorityMap[item.priority] || "3"
PriorityId(priority) ==
    CASE priority = "High" -> "1"
      [] priority = "Medium" -> "3"
      [] priority = "Low" -> "5"
      [] OTHER -> "3"

IssueData(item) ==
    [project |-> "PROJECT", summary |-> item.summary, issuetype |-> "Task",
     priority |-> PriorityId(item.priority)]

\* The issues the tracker has created so far, and the key of the n-th.
IssuesCreated == Cardinality({k \in 1..Len(calls) : calls[k].outcome = "ok"})
IssueKey(n) == <<"PROJECT", n>>

\* for (const item of actionItems): the loop goes on while items are left.
LoopHasNext == pub_idx <= Len(pub_items)

\* fetch(".../rest/api/3/issue", POST): the call for the current item is
\* issued; the handler awaits it.
IssueCreate ==
    /\ pub_pc = "loop"
    /\ LoopHasNext
    /\ calls' = Append(calls, [pos |-> pub_idx, id |-> pub_items[pub_idx].id,
                               data |-> IssueData(pub_items[pub_idx]),
                               outcome |-> "inflight", wb |-> "none"])
    /\ pub_pc' = "awaiting"
    /\ UNCHANGED <<pub_user, pub_items, pub_integration, pub_idx, createdIssues,
                   errors, pub_resp, storeVars, extVars, trVars, flowVars>>

\* A loop that stops at the first creation call that did not succeed.
AfterFailureBreak == [pc |-> "loop", idx |-> Len(pub_items) + 1]

\* Where the loop goes after a creation call that did not succeed.
AfterFailure == [pc |-> "loop", idx |-> pub_idx + 1]

\* The creation call completes: response.ok, a non-success status, or a
\* thrown error (the fetch or the reading of its body rejects).
CreateReturns(outcome) ==
    /\ pub_pc = "awaiting"
    /\ calls' = [calls EXCEPT ![Len(calls)].outcome = outcome]
    /\ LET item == pub_items[pub_idx]
       IN  CASE outcome = "ok" ->
                  /\ createdIssues' = Append(createdIssues,
                        [id |-> IssuesCreated + 1, key |-> IssueKey(IssuesCreated + 1),
                         summary |-> item.summary])
                  /\ pub_pc' = "writeback"
                  /\ UNCHANGED <<errors, pub_idx>>
             [] outcome = "status" ->
                  /\ errors' = Append(errors, [id |-> item.id, error |-> "Jira API error: 500"])
                  /\ pub_pc' = AfterFailure.pc
                  /\ pub_idx' = AfterFailure.idx
                  /\ UNCHANGED createdIssues
             [] outcome = "throw" ->
                  /\ errors' = Append(errors, [id |-> item.id, error |-> "fetch failed"])
                  /\ pub_pc' = AfterFailure.pc
                  /\ pub_idx' = AfterFailure.idx
                  /\ UNCHANGED createdIssues
    /\ UNCHANGED <<pub_user, pub_items, pub_integration, pub_resp, storeVars, extVars, trVars, flowVars>>

\* An update without the id filter: every row of the caller gets the key.
UpdateIssueKeyAnyRow(rows, user, id, key) ==
    [k \in 1..Len(rows) |->
        IF rows[k].user_id = user
        THEN [rows[k] EXCEPT !.jira_issue_key = key]
        ELSE rows[k]]

\* An update that also closes the item.
UpdateIssueKeyAndStatus(rows, user, id, key) ==
    [k \in 1..Len(rows) |->
        IF rows[k].id = id /\ rows[k].user_id = user
        THEN [rows[k] EXCEPT !.jira_issue_key = key, !.status = "Done"]
        ELSE rows[k]]

\* .from("action_items").update({ jira_issue_key: key }).eq("id", id), under
\* the policy "Users can update own action items" (auth.uid() = user_id).
UpdateIssueKey(rows, user, id, key) ==
    [k \in 1..Len(rows) |->
        IF rows[k].id = id /\ rows[k].user_id = user
        THEN [rows[k] EXCEPT !.jira_issue_key = key]
        ELSE rows[k]]

\* The write-back of the key after a successful creation: the update is
\* applied ("ok"), the store answers with an error that the handler does
\* not read ("error"), or the awaited call rejects ("throw") and the
\* per-item catch records the item in errors.
WriteBack(outcome) ==
    /\ pub_pc = "writeback"
    /\ LET item == pub_items[pub_idx]
           key == createdIssues[Len(createdIssues)].key
           updated == UpdateIssueKey(action_items, pub_user, item.id, key)
       IN  /\ action_items' = IF outcome = "ok" THEN updated ELSE action_items
           /\ calls' = [calls EXCEPT ![Len(calls)].wb =
                           IF outcome # "ok" THEN outcome
                           ELSE IF updated # action_items THEN "applied" ELSE "nomatch"]
           /\ errors' = IF outcome = "throw"
                        THEN Append(errors, [id |-> item.id, error |-> "update failed"])
                        ELSE errors
           /\ Broadcast(ChangedRows(action_items,
                                    IF outcome = "ok" THEN updated ELSE action_items),
                        "UPDATE")
    /\ pub_idx' = pub_idx + 1
    /\ pub_pc' = "loop"
    /\ UNCHANGED <<pub_user, pub_items, pub_integration, createdIssues, pub_resp,
                   meetings, integrations, credWrites, extVars, trVars, quietVars>>

\* A final response that always carries the errors list.
FinalResponseAlwaysErrors(created, errs) ==
    [status |-> 200, error |-> NULL, message |-> NULL, success |-> TRUE,
     created |-> created, has_errors |-> TRUE, errors |-> errs]

\* The final response: errors is left out of the payload when it is empty.
FinalResponse(created, errs) ==
    [status |-> 200, error |-> NULL, message |-> NULL, success |-> TRUE,
     created |-> created, has_errors |-> Len(errs) > 0,
     errors |-> IF Len(errs) > 0 THEN errs ELSE <<>>]

PublishRespond ==
    /\ pub_pc = "loop"
    /\ ~LoopHasNext
    /\ pub_resp' = FinalResponse(createdIssues, errors)
    /\ pub_pc' = "done"
    /\ UNCHANGED <<pub_user, pub_items, pub_integration, pub_idx, createdIssues,
                   errors, calls, storeVars, extVars, trVars, flowVars>>

----------------------------------------------------------------------------
\* Extractor: extract-actions.

\* JSON scalars as JavaScript sees them: a type tag, and the number (in
\* hundredths) or the string it holds.
JsVal(t, n, s) == [t |-> t, n |-> n, s |-> s]
Undefined == JsVal("undefined", 0, "")
Num(n) == JsVal("number", n, "")
Str(s) == JsVal("string", 0, s)

\* x || default  and  x ?? default
Falsy(v) ==
    \/ v.t \in {"undefined", "null"}
    \/ (v.t = "string" /\ v.s = "")
    \/ (v.t = "number" /\ v.n = 0)
Nullish(v) == v.t \in {"undefined", "null"}

\* The elements a model reply's array can hold: objects whose fields may be
\* missing or mistyped, and null.
TaskValues == {Undefined, Str(""), Str("Send the report")}
PriorityValues == {Undefined, Str("High"), Str("Urgent")}
ConfidenceValues == {Undefined, Num(0), Num(95), Num(150), Str("high")}

Candidates ==
    [kind : {"object"}, actionItem : TaskValues, priority : PriorityValues,
     confidence : ConfidenceValues]
    \cup {[kind |-> "null", actionItem |-> Undefined, priority |-> Undefined,
           confidence |-> Undefined]}

\* JSON values a reply can parse to.
JsonArray(items) == [kind |-> "array", items |-> items]
JsonValues ==
    {JsonArray(items) : items \in SeqsUpTo(Candidates, MaxCandidates)}
    \cup {[kind |-> k, items |-> <<>>] : k \in {"object", "null", "number"}}

\* The message content as a sequence of tokens: the fence marker ```, the
\* word json, white space, other text, or the text of a JSON value.
Tok(kind) == [kind |-> kind, value |-> [kind |-> "none", items |-> <<>>]]
ValueTok(v) == [kind |-> "value", value |-> v]
Fence == Tok("fence")
Json == Tok("json")
Ws == Tok("ws")
Text == Tok("text")

Contents ==
    {<<>>, <<Text>>, <<Fence, Json, Text, Fence>>}
    \cup UNION { { <<ValueTok(v)>>,
                   <<Fence, Json, Ws, ValueTok(v), Ws, Fence>>,
                   <<Ws, Fence, ValueTok(v), Fence, Ws>>,
                   <<Fence, Json, ValueTok(v)>>,
                   <<Text, ValueTok(v)>> } : v \in JsonValues }

\* String.prototype.trim
RECURSIVE TrimStart(_)
TrimStart(s) == IF Len(s) > 0 /\ s[1] = Ws THEN TrimStart(Tail(s)) ELSE s
RECURSIVE TrimEnd(_)
TrimEnd(s) ==
    IF Len(s) > 0 /\ s[Len(s)] = Ws THEN TrimEnd(SubSeq(s, 1, Len(s) - 1)) ELSE s
Trim(s) == TrimEnd(TrimStart(s))

\* The fence stripping of the handler: a leading ```json or ```, then a
\* trailing ```.
StripFences(content) ==
    LET trimmed == Trim(content)
        head == IF Len(trimmed) >= 2 /\ trimmed[1] = Fence /\ trimmed[2] = Json
                    THEN SubSeq(trimmed, 3, Len(trimmed))
                ELSE IF Len(trimmed) >= 1 /\ trimmed[1] = Fence
                    THEN SubSeq(trimmed, 2, Len(trimmed))
                ELSE trimmed
    IN  IF Len(head) >= 1 /\ head[Len(head)] = Fence
        THEN SubSeq(head, 1, Len(head) - 1)
        ELSE head

\* JSON.parse(text.trim()): a value when the text is exactly one JSON text.
JsonParses(text) == Len(Trim(text)) = 1 /\ Trim(text)[1].kind = "value"

\* .choices?.[0]?.message?.content || "[]", the stripping, and the parse
\* whose failure gives [].
ParseReply(content) ==
    LET text == StripFences(IF content = <<>> THEN <<ValueTok(JsonArray(<<>>))>>
                            ELSE content)
    IN  IF JsonParses(text) THEN Trim(text)[1].value ELSE JsonArray(<<>>)

\* The projection of one candidate onto a row to insert.
NormalizeItem(item, meetingId, user) ==
    [meeting_id |-> meetingId,
     user_id |-> user,
     action_item |-> IF Falsy(item.actionItem) THEN Str("Unnamed action")
                     ELSE item.actionItem,
     priority |-> IF Falsy(item.priority) THEN Str("Medium") ELSE item.priority,
     status |-> "Open",
     confidence |-> IF Nullish(item.confidence) THEN Num(80) ELSE item.confidence]

\* actionItems.map(...) raises a TypeError when actionItems is no array or
\* holds a null element.
MapThrows(value) ==
    \/ value.kind # "array"
    \/ \E k \in 1..Len(value.items) : value.items[k].kind = "null"

ItemsToInsert(value, meetingId, user) ==
    [k \in 1..Len(value.items) |-> NormalizeItem(value.items[k], meetingId, user)]

\* What the table accepts: the meeting exists (foreign key), priority is a
\* value of action_priority, confidence fits DECIMAL(3,2), and the row is the
\* caller's own (policy "Users can create own action items").
RowAccepted(item, user) ==
    /\ item.meeting_id \in DOMAIN meetings
    /\ item.user_id = user
    /\ item.action_item.t = "string"
    /\ item.priority.t = "string" /\ item.priority.s \in Priorities
    /\ item.confidence.t = "number"
    /\ item.confidence.n > -1000 /\ item.confidence.n < 1000

InsertAccepted(items, user) == \A k \in 1..Len(items) : RowAccepted(items[k], user)

\* The rows a batch insert appends, with generated ids in insertion order;
\* the rows of one statement share its time.
InsertedRows(items, rows) ==
    [k \in 1..Len(items) |->
        [ItemRow(Len(rows) + k, items[k].user_id, items[k].meeting_id,
                 items[k].action_item.s, items[k].priority.s, items[k].status,
                 items[k].confidence.n)
            EXCEPT !.created_at = Len(insert_calls) + 1]]

ExtractResponse(status, error, items) ==
    [status |-> status, error |-> error, success |-> (status = 200),
     actionItems |-> items, count |-> Len(items)]

NoExtractResponse == ExtractResponse(0, NULL, <<>>)

\* The request arrives: 400 without transcript or meetingId, 500 without the
\* gateway key, else the inference call is issued.
ExtractBegin(auth, transcript, meetingId, keyConfigured) ==
    /\ ext_pc = "idle"
    /\ ext_req' = [auth |-> auth, transcript |-> transcript, meetingId |-> meetingId]
    /\ IF transcript = NULL \/ meetingId = NULL
       THEN /\ ext_resp' = ExtractResponse(400, "Missing transcript or meetingId", <<>>)
            /\ ext_pc' = "done"
            /\ UNCHANGED ai_calls
       ELSE IF ~keyConfigured
       THEN /\ ext_resp' = ExtractResponse(500, "LOVABLE_API_KEY is not configured", <<>>)
            /\ ext_pc' = "done"
            /\ UNCHANGED ai_calls
       ELSE /\ ai_calls' = ai_calls + 1
            /\ ext_pc' = "awaiting"
            /\ UNCHANGED ext_resp
    /\ UNCHANGED <<ai_reply, ext_items, insert_calls, storeVars, pubVars, trVars, flowVars>>

\* A handler that answers 500 to every upstream failure.
AfterInferenceNoMapping(outcome, content, req) ==
    IF outcome # "ok"
        THEN [resp |-> ExtractResponse(500, "AI gateway error", <<>>), items |-> <<>>]
    ELSE [resp |-> ExtractResponse(200, NULL, <<>>), items |-> <<>>]

\* The handler from the gateway's answer to the insert: the status mapping,
\* the parse, the auth check, and the mapping of the candidates.
AfterInference(outcome, content, req) ==
    LET value == ParseReply(content)
        user == GetUser(req.auth)
    IN  IF outcome = "429"
            THEN [resp |-> ExtractResponse(429, "Rate limit exceeded. Please try again later.", <<>>),
                  items |-> <<>>]
        ELSE IF outcome = "402"
            THEN [resp |-> ExtractResponse(402, "AI credits exhausted. Please add funds to continue.", <<>>),
                  items |-> <<>>]
        ELSE IF outcome = "500"
            THEN [resp |-> ExtractResponse(500, "AI gateway error: 500", <<>>), items |-> <<>>]
        ELSE IF outcome = "throw"
            THEN [resp |-> ExtractResponse(500, "fetch failed", <<>>), items |-> <<>>]
        ELSE IF req.auth = "none" \/ user = NULL
            THEN [resp |-> ExtractResponse(401, "Unauthorized", <<>>), items |-> <<>>]
        ELSE IF MapThrows(value)
            THEN [resp |-> ExtractResponse(500, "actionItems.map is not a function", <<>>),
                  items |-> <<>>]
        ELSE IF Len(value.items) = 0
            THEN [resp |-> ExtractResponse(200, NULL, <<>>), items |-> <<>>]
        ELSE [resp |-> NoExtractResponse,
              items |-> ItemsToInsert(value, req.meetingId, user)]

InferenceReturns(outcome, content) ==
    /\ ext_pc = "awaiting"
    /\ ai_reply' = [outcome |-> outcome, content |-> IF outcome = "ok" THEN content ELSE <<>>]
    /\ LET after == AfterInference(outcome, content, ext_req)
       IN  /\ ext_resp' = after.resp
           /\ ext_items' = after.items
           /\ ext_pc' = IF after.resp = NoExtractResponse THEN "inserting" ELSE "done"
    /\ UNCHANGED <<ext_req, ai_calls, insert_calls, storeVars, pubVars, trVars,
                   flowVars>>

\* An insert statement as the store logs it: the rows it was given, whether
\* it succeeded, and the size of the table before and after it.
InsertCall(items, ok, before, after) ==
    [items |-> items, ok |-> ok, before |-> before, after |-> after]

\* An insert that persists the acceptable rows of a failing batch one by one.
InsertReturnsPerItem(storeFails) ==
    /\ ext_pc = "inserting"
    /\ LET user == GetUser(ext_req.auth)
           ok == ~storeFails /\ InsertAccepted(ext_items, user)
           kept == SelectSeq(ext_items, LAMBDA item : RowAccepted(item, user))
       IN  /\ insert_calls' = Append(insert_calls,
                                     InsertCall(ext_items, ok, Len(action_items),
                                                Len(action_items) + Len(kept)))
           /\ action_items' = action_items \o InsertedRows(kept, action_items)
           /\ Broadcast(InsertedRows(kept, action_items), "INSERT")
           /\ ext_resp' = IF ok THEN ExtractResponse(200, NULL, ext_items)
                          ELSE ExtractResponse(500, "insert failed", <<>>)
    /\ ext_pc' = "done"
    /\ UNCHANGED <<ext_req, ai_reply, ext_items, ai_calls, meetings, integrations,
                   credWrites, pubVars, trVars, quietVars>>

\* .from("action_items").insert(itemsToInsert): one statement, so all rows
\* or none; a returned error is thrown and answered 500 by the catch.
InsertReturns(storeFails) ==
    /\ ext_pc = "inserting"
    /\ LET ok == ~storeFails /\ InsertAccepted(ext_items, GetUser(ext_req.auth))
       IN  /\ insert_calls' = Append(insert_calls,
                                     InsertCall(ext_items, ok, Len(action_items),
                                                Len(action_items)
                                                + IF ok THEN Len(ext_items) ELSE 0))
           /\ IF ok
              THEN /\ action_items' = action_items \o InsertedRows(ext_items, action_items)
                   /\ Broadcast(InsertedRows(ext_items, action_items), "INSERT")
                   /\ ext_resp' = ExtractResponse(200, NULL, ext_items)
              ELSE /\ UNCHANGED <<action_items, channel, missed>>
                   /\ ext_resp' = ExtractResponse(500, "insert failed", <<>>)
    /\ ext_pc' = "done"
    /\ UNCHANGED <<ext_req, ai_reply, ext_items, ai_calls, meetings, integrations,
                   credWrites, pubVars, trVars, quietVars>>

----------------------------------------------------------------------------
\* Transcriber: the transcription handler.

MAX_AUDIO_BYTES == 25 * 1024 * 1024

\* Sizes, in bytes, of the audio a request carries or points to.
AudioSizes == {0, 3, MAX_AUDIO_BYTES, MAX_AUDIO_BYTES + 1}

\* Length of the base64 text of n bytes: with padding (what btoa produces) a
\* multiple of four, without it the characters that carry data.
Base64Length(n, padded) ==
    IF padded THEN 4 * ((n + 2) \div 3) ELSE (4 * n + 2) \div 3

\* toBase64(bytes): btoa of the bytes, as the length of its result.
toBase64(n) == Base64Length(n, TRUE)

\* The audioBase64 field of the body: absent, blank, or the base64 text of
\* some bytes, behind a data-URI prefix "data:<prefix>;base64," when prefix
\* is not NULL (parseBase64Payload cuts the prefix off).
NoPayload == [kind |-> "absent", bytes |-> 0, padded |-> TRUE, prefix |-> NULL]
Payloads ==
    {NoPayload, [kind |-> "blank", bytes |-> 0, padded |-> TRUE, prefix |-> NULL]}
    \cup [kind : {"data"}, bytes : AudioSizes \ {0}, padded : BOOLEAN, prefix : {NULL}]

\* parseBase64Payload(...).data, as its length.
parseBase64Payload(payload) ==
    IF payload.kind = "data" THEN Base64Length(payload.bytes, payload.padded) ELSE 0

\* Math.floor((encodedAudio.length * 3) / 4)
EstimatedAudioBytes(encodedLength) == (encodedLength * 3) \div 4

\* String.prototype.trim.
TrimString(str) == IF str \in {"", " "} THEN "" ELSE str

\* parseBase64Payload(...).mimeType: the type of the data-URI prefix when
\* the payload has one, else the fallback type.
PayloadMimeType(payload, fallbackMimeType) ==
    IF payload.kind = "data" /\ payload.prefix # NULL THEN payload.prefix
    ELSE fallbackMimeType

\* The last segment of a storage path, and of the path of a URL (of a text
\* that is no URL, new URL throws).
LastSegment(filePath) ==
    CASE filePath = "u1/talk.m4a" -> "talk.m4a"
      [] filePath = "u1/" -> ""
      [] OTHER -> filePath
UrlLastSegment(url) ==
    CASE url = "https://cdn/a.ogg" -> "a.ogg"
      [] OTHER -> "meeting-audio"

getFileName(filePath, url, explicitFileName) ==
    IF explicitFileName # NULL /\ TrimString(explicitFileName) # ""
        THEN TrimString(explicitFileName)
    ELSE IF filePath # NULL
        THEN IF LastSegment(filePath) = "" THEN "meeting-audio" ELSE LastSegment(filePath)
    ELSE IF url # NULL THEN UrlLastSegment(url)
    ELSE "meeting-audio"

\* The ending of a lower-cased file name, of those the table names.
Extension(fileName) ==
    CASE fileName \in {"talk.wav", "TALK.WAV"} -> ".wav"
      [] fileName = "talk.m4a" -> ".m4a"
      [] fileName = "memo.mp3" -> ".mp3"
      [] fileName = "a.ogg" -> ".ogg"
      [] fileName = "memo.webm" -> ".webm"
      [] OTHER -> ""

inferMimeType(fileName, providedMimeType) ==
    IF providedMimeType # NULL /\ TrimString(providedMimeType) # ""
        THEN TrimString(providedMimeType)
    ELSE CASE Extension(fileName) = ".wav" -> "audio/wav"
           [] Extension(fileName) = ".m4a" -> "audio/mp4"
           [] Extension(fileName) = ".mp3" -> "audio/mpeg"
           [] Extension(fileName) = ".ogg" -> "audio/ogg"
           [] Extension(fileName) = ".webm" -> "audio/webm"
           [] OTHER -> "audio/mpeg"

\* Lines 548-556: the type of an inline payload.
InlineMimeType(body) ==
    LET resolvedFileName == getFileName(body.filePath, body.audioUrl, body.fileName)
        resolvedMimeType == inferMimeType(resolvedFileName, body.mimeType)
        parsed == PayloadMimeType(body.audioBase64, resolvedMimeType)
    IN  IF parsed # "" THEN parsed ELSE resolvedMimeType

\* Lines 565 and 573: the type of a downloaded or fetched payload is the
\* type of the blob, and the inferred type only when the blob has none.
LoadedMimeType(body, blobType) ==
    IF blobType # "" THEN blobType
    ELSE inferMimeType(getFileName(body.filePath, body.audioUrl, body.fileName),
                       body.mimeType)

TranscribeBodies ==
    [audioUrl : {NULL, "a1", "a9"}, filePath : {NULL, "f1"},
     meetingId : {NULL, "m1", "m9"}, audioBase64 : Payloads,
     mimeType : {NULL}, fileName : {NULL}]

\* What the model can put where the candidates go, and in the transcript
\* field, of its JSON reply.
TranscriberCandidates ==
    {c \in Candidates : c.priority = Undefined /\ c.confidence = Undefined}
ReplyItems ==
    {[kind |-> "null", items |-> <<>>]}
    \cup {JsonArray(items) : items \in SeqsUpTo(TranscriberCandidates, MaxCandidates)}
ReplyTranscripts ==
    {Undefined, Num(5), Str(""), Str(" "), Str("[00:00:01] Ana: ship it")}
ReplyValues ==
    [kind : {"reply"}, transcript : ReplyTranscripts, actionItems : ReplyItems]

\* geminiResult.response.text()
GeminiTexts ==
    {<<>>, <<Ws>>, <<Text>>, <<Fence, Json, Fence>>,
     <<ValueTok(JsonArray(<<>>))>>, <<ValueTok([kind |-> "null", items |-> <<>>])>>}
    \cup UNION { { <<ValueTok(v)>>, <<Fence, Json, Ws, ValueTok(v), Ws, Fence>> }
                 : v \in ReplyValues }

\* The characters of a reply text (the fence marker is written ~~~).
RenderToken(tok) ==
    CASE tok.kind = "fence" -> "~~~"
      [] tok.kind = "json" -> "json"
      [] tok.kind = "ws" -> " "
      [] tok.kind = "text" -> "um"
      [] OTHER -> IF tok.value.kind = "array" THEN "[]"
                  ELSE IF tok.value.kind = "null" THEN "null" ELSE "{}"
RECURSIVE RawText(_)
RawText(tokens) ==
    IF tokens = <<>> THEN "" ELSE RenderToken(Head(tokens)) \o RawText(Tail(tokens))

JsonNull == [kind |-> "null", items |-> <<>>]

\* parseGeminiJson: null for a blank text and for a text JSON.parse rejects.
parseGeminiJson(raw) ==
    IF Trim(raw) = <<>> THEN JsonNull
    ELSE IF JsonParses(StripFences(raw)) THEN Trim(StripFences(raw))[1].value
    ELSE JsonNull

\* normalizeActionItems: no array gives []; an element that is no object, or
\* whose actionItem is no non-empty string, is dropped.
RECURSIVE KeepNamed(_)
KeepNamed(items) ==
    IF items = <<>> THEN <<>>
    ELSE LET item == Head(items)
             rest == KeepNamed(Tail(items))
         IN  IF item.kind = "object" /\ item.actionItem.t = "string"
                /\ item.actionItem.s # ""
             THEN <<[actionItem |-> item.actionItem.s, owner |-> NULL,
                     deadline |-> NULL,
                     priority |-> IF item.priority.t = "string"
                                  THEN item.priority.s ELSE NULL,
                     notes |-> NULL]>> \o rest
             ELSE rest
normalizeActionItems(value) ==
    IF value.kind = "array" THEN KeepNamed(value.items) ELSE <<>>

\* A resolution that does not trim the transcript.
ResolveReplyUntrimmed(text) ==
    LET parsed == parseGeminiJson(text)
        isReply == parsed.kind = "reply"
    IN  [transcript |-> IF isReply /\ parsed.transcript.t = "string"
                        THEN parsed.transcript.s
                        ELSE RawText(text),
         actionItems |-> IF isReply THEN normalizeActionItems(parsed.actionItems)
                         ELSE <<>>]

\* Lines 642-648: the transcript (the parsed field when it is a string, else
\* the raw text; trimmed) and the candidates.
ResolveReply(text) ==
    LET parsed == parseGeminiJson(text)
        isReply == parsed.kind = "reply"
    IN  [transcript |-> IF isReply /\ parsed.transcript.t = "string"
                        THEN TrimString(parsed.transcript.s)
                        ELSE RawText(Trim(text)),
         actionItems |-> IF isReply THEN normalizeActionItems(parsed.actionItems)
                         ELSE <<>>]

\* What generateContent can throw.
GenerateErrors ==
    {[isError |-> FALSE, words |-> {}]}
    \cup [isError : {TRUE},
          words : {{}, {"model"}, {"not found"}, {"model", "quota"},
                   {"model", "not found"}, {"model", "unsupported"},
                   {"model", "permission denied"}}]

\* A retry rule that asks only for the word "model".
shouldRetryOnModelWord(error) ==
    /\ error.isError
    /\ "model" \in error.words

shouldRetryWithFallbackModel(error) ==
    /\ error.isError
    /\ "model" \in error.words
    /\ error.words \cap {"not found", "unsupported", "permission denied"} # {}

TranscribeResponse(status, error, transcript, items, meetingId, model) ==
    [status |-> status, error |-> error, transcript |-> transcript,
     actionItems |-> items, meetingUpdated |-> (meetingId # NULL),
     meetingId |-> meetingId, model |-> model]

TranscribeError(status, error) ==
    TranscribeResponse(status, error, "", <<>>, NULL, NULL)

NoTranscribeResponse == TranscribeError(0, NULL)

\* The model of GEMINI_MODEL (or the default one), and the fixed second one.
configuredModel == "primary"
FALLBACK_GEMINI_MODEL == "fallback"

\* One generateWithModel call, as the inference service sees it.
Last(s) == s[Len(s)]
NoError == [isError |-> FALSE, words |-> {}]
GenerateCall(model, mimeType) ==
    [model |-> model, mimeType |-> mimeType, outcome |-> "inflight", error |-> NoError]

\* Lines 576-586: an empty payload fails, one estimated above the limit is
\* answered 413, any other goes to the primary model.
AfterAudio(encodedLength) ==
    IF encodedLength = 0
        THEN [pc |-> "done", resp |-> TranscribeError(500, "Failed to read audio payload")]
    ELSE IF EstimatedAudioBytes(encodedLength) > MAX_AUDIO_BYTES
        THEN [pc |-> "done",
              resp |-> TranscribeError(413, "Audio file exceeds 25MB processing limit")]
    ELSE [pc |-> "primary", resp |-> NoTranscribeResponse]

\* The request arrives: 400 without any audio input, 500 without the API
\* key, 401 without a user; then the inline payload, or the download of
\* filePath, or the fetch of audioUrl.
TranscribeBegin(auth, body, keyConfigured) ==
    /\ tr_pc = "idle"
    /\ tr_req' = [auth |-> auth, audioUrl |-> body.audioUrl, filePath |-> body.filePath,
                  meetingId |-> body.meetingId, audioBase64 |-> body.audioBase64,
                  mimeType |-> body.mimeType, fileName |-> body.fileName]
    /\ LET encoded == parseBase64Payload(body.audioBase64)
           after == AfterAudio(encoded)
       IN  IF body.audioUrl = NULL /\ body.filePath = NULL
              /\ body.audioBase64.kind = "absent"
           THEN /\ tr_resp' = TranscribeError(400, "Missing audio input")
                /\ tr_pc' = "done"
                /\ UNCHANGED <<tr_bytes, tr_encoded, gen_calls>>
           ELSE IF ~keyConfigured
           THEN /\ tr_resp' = TranscribeError(500, "GEMINI_API_KEY is not configured")
                /\ tr_pc' = "done"
                /\ UNCHANGED <<tr_bytes, tr_encoded, gen_calls>>
           ELSE IF auth = "none" \/ GetUser(auth) = NULL
           THEN /\ tr_resp' = TranscribeError(401, "Unauthorized")
                /\ tr_pc' = "done"
                /\ UNCHANGED <<tr_bytes, tr_encoded, gen_calls>>
           ELSE IF encoded = 0 /\ body.filePath # NULL
           THEN /\ tr_pc' = "download"
                /\ UNCHANGED <<tr_resp, tr_bytes, tr_encoded, gen_calls>>
           ELSE IF encoded = 0 /\ body.audioUrl # NULL
           THEN /\ tr_pc' = "fetch"
                /\ UNCHANGED <<tr_resp, tr_bytes, tr_encoded, gen_calls>>
           ELSE /\ tr_bytes' = body.audioBase64.bytes
                /\ tr_encoded' = encoded
                /\ tr_pc' = after.pc
                /\ tr_resp' = after.resp
                /\ gen_calls' = IF after.pc = "primary"
                                THEN Append(gen_calls,
                                            GenerateCall(configuredModel,
                                                         InlineMimeType(body)))
                                ELSE gen_calls
    /\ usedModel' = configuredModel
    /\ UNCHANGED <<geminiText, tr_transcript, tr_items, tr_target, storeVars, pubVars,
                   extVars, flowVars>>

\* The storage download or the HTTP fetch of the audio completes: an error
\* fails the request, the bytes are encoded by toBase64 and checked.
AudioLoaded(outcome, bytes, blobType) ==
    /\ tr_pc \in {"download", "fetch"}
    /\ IF outcome = "error"
       THEN /\ tr_resp' = TranscribeError(500, IF tr_pc = "download"
                                               THEN "Failed to download audio file"
                                               ELSE "Failed to fetch audio URL")
            /\ tr_pc' = "done"
            /\ UNCHANGED <<tr_bytes, tr_encoded, gen_calls>>
       ELSE LET after == AfterAudio(toBase64(bytes))
            IN  /\ tr_bytes' = bytes
                /\ tr_encoded' = toBase64(bytes)
                /\ tr_pc' = after.pc
                /\ tr_resp' = after.resp
                /\ gen_calls' = IF after.pc = "primary"
                                THEN Append(gen_calls,
                                            GenerateCall(configuredModel,
                                                         LoadedMimeType(tr_req, blobType)))
                                ELSE gen_calls
    /\ UNCHANGED <<tr_req, geminiText, tr_transcript, tr_items, tr_target, usedModel, storeVars,
                   pubVars, extVars, flowVars>>

\* generateWithModel completes. A primary error that
\* shouldRetryWithFallbackModel accepts starts the fallback model; any other
\* error fails the request. A reply is resolved; an empty transcript fails
\* the request, else the meeting is updated by id, or looked up by audio URL.
GenerateReturns(outcome, text, error) ==
    /\ tr_pc \in {"primary", "fallback"}
    /\ LET resolved == ResolveReply(text)
           named == tr_req.meetingId # NULL
           answered == [gen_calls EXCEPT ![Len(gen_calls)].outcome = outcome,
                                         ![Len(gen_calls)].error =
                                             IF outcome = "throw" THEN error ELSE NoError]
           used == IF tr_pc = "fallback" THEN FALLBACK_GEMINI_MODEL ELSE usedModel
       IN  IF outcome = "throw" /\ tr_pc = "primary" /\ shouldRetryWithFallbackModel(error)
           THEN /\ tr_pc' = "fallback"
                /\ gen_calls' = Append(answered, GenerateCall(FALLBACK_GEMINI_MODEL,
                                                            Last(gen_calls).mimeType))
                /\ UNCHANGED <<geminiText, tr_transcript, tr_items, tr_resp, extraction,
                               usedModel>>
           ELSE IF outcome = "throw"
           THEN /\ tr_resp' = TranscribeError(500, "Transcription failed")
                /\ tr_pc' = "done"
                /\ gen_calls' = answered
                /\ UNCHANGED <<geminiText, tr_transcript, tr_items, extraction, usedModel>>
           ELSE IF resolved.transcript = ""
           THEN /\ tr_resp' = TranscribeError(500, "Gemini transcription returned empty transcript")
                /\ tr_pc' = "done"
                /\ gen_calls' = answered
                /\ geminiText' = text
                /\ usedModel' = used
                /\ UNCHANGED <<tr_transcript, tr_items, extraction>>
           ELSE /\ geminiText' = text
                /\ usedModel' = used
                /\ gen_calls' = answered
                /\ tr_transcript' = resolved.transcript
                /\ tr_items' = resolved.actionItems
                /\ tr_pc' = IF named THEN "updating"
                            ELSE IF tr_req.audioUrl # NULL THEN "lookup" ELSE "done"
                /\ tr_resp' = IF named \/ tr_req.audioUrl # NULL THEN tr_resp
                              ELSE TranscribeResponse(200, NULL, resolved.transcript,
                                                      resolved.actionItems, NULL, used)
                /\ extraction' = IF named /\ tr_req.meetingId \in DOMAIN meetings
                                 THEN [extraction EXCEPT ![tr_req.meetingId].transcribe = "done"]
                                 ELSE extraction
    /\ UNCHANGED <<tr_req, tr_bytes, tr_encoded, tr_target, storeVars, pubVars, extVars,
                   upVars, viewVars>>

\* The caller's meetings with the given audio_url, latest created_at first,
\* limit 1: the candidates for that one row.
\* A lookup without the order by created_at.
AnyMatching(user, url) ==
    {m \in DOMAIN meetings :
        meetings[m].user_id = user /\ meetings[m].audio_url = url}

LatestMatching(user, url) ==
    LET mine == {m \in DOMAIN meetings :
                    meetings[m].user_id = user /\ meetings[m].audio_url = url}
    IN  {m \in mine : \A o \in mine : meetings[o].created_at <= meetings[m].created_at}

\* The select by audio_url completes (its error is not read): without a row
\* the request answers with meetingUpdated false.
LookupReturns(queryFails, found) ==
    /\ tr_pc = "lookup"
    /\ found \in LatestMatching(GetUser(tr_req.auth), tr_req.audioUrl) \cup {NULL}
    /\ found = NULL <=> (queryFails \/ LatestMatching(GetUser(tr_req.auth), tr_req.audioUrl) = {})
    /\ IF found = NULL
       THEN /\ tr_resp' = TranscribeResponse(200, NULL, tr_transcript, tr_items, NULL,
                                              usedModel)
            /\ tr_pc' = "done"
            /\ UNCHANGED <<tr_target, extraction>>
       ELSE /\ tr_target' = found
            /\ tr_pc' = "updating"
            /\ extraction' = [extraction EXCEPT ![found].transcribe = "done"]
            /\ UNCHANGED tr_resp
    /\ UNCHANGED <<tr_req, tr_bytes, tr_encoded, geminiText, tr_transcript, tr_items,
                   gen_calls, usedModel, storeVars, pubVars, extVars, upVars,
                   viewVars>>

\* .from("meetings").update({transcript, processed_at}).eq("id", id)
\*   .eq("user_id", user.id)
UpdateMeeting(rows, id, user, transcript) ==
    [m \in DOMAIN rows |->
        IF m = id /\ rows[m].user_id = user
        THEN [rows[m] EXCEPT !.transcript = transcript, !.processed_at = "now"]
        ELSE rows[m]]

\* The update of the meeting completes: an error fails the request. By id,
\* meetingId in the answer is the row the update returned; by audio URL, the
\* row the lookup found.
MeetingUpdateReturns(storeFails) ==
    /\ tr_pc = "updating"
    /\ LET named == tr_req.meetingId # NULL
           id == IF named THEN tr_req.meetingId ELSE tr_target
           user == GetUser(tr_req.auth)
           updated == UpdateMeeting(meetings, id, user, tr_transcript)
       IN  IF storeFails
           THEN /\ tr_resp' = TranscribeError(500, "Failed to update meeting")
                /\ UNCHANGED meetings
           ELSE /\ meetings' = updated
                /\ tr_resp' = TranscribeResponse(200, NULL, tr_transcript, tr_items,
                                  IF named /\ updated = meetings THEN NULL ELSE id,
                                  usedModel)
    /\ tr_pc' = "done"
    /\ UNCHANGED <<tr_req, tr_bytes, tr_encoded, geminiText, tr_transcript, tr_items,
                   tr_target, gen_calls, usedModel, action_items, integrations,
                   credWrites,
                   pubVars, extVars, flowVars>>

----------------------------------------------------------------------------
\* Upload view: processTranscript.

\* No extraction has run for a meeting, neither the Extractor invoked by
\* the Upload view nor the one the Transcriber's inference reply carries.
NoExtraction == [upload |-> "none", transcribe |-> "none"]

\* The file selected in the dropzone: none, an audio file, or a text file
\* with its content.
UploadFiles ==
    {[kind |-> "none", content |-> ""], [kind |-> "audio", content |-> ""],
     [kind |-> "text", content |-> ""], [kind |-> "text", content |-> "notes"]}

\* What the user typed into the transcript field.
TypedTranscripts == {"", " ", "typed"}

\* Ids the store generates for the meetings the view creates, and the
\* storage path and public URL of the audio it uploads.
NewMeetingIds == <<"m3", "m4", "m5">>
UploadFilePath == "f2"
UploadAudioUrls == <<"a2", "a3", "a4">>

\* A handler invocation has answered and its caller has the response.
TranscriberReset ==
    /\ tr_pc' = "idle"
    /\ tr_req' = [auth |-> "none", audioUrl |-> NULL, filePath |-> NULL,
                  meetingId |-> NULL, audioBase64 |-> NoPayload,
                  mimeType |-> NULL, fileName |-> NULL]
    /\ tr_bytes' = 0
    /\ tr_encoded' = 0
    /\ geminiText' = <<>>
    /\ tr_transcript' = ""
    /\ tr_items' = <<>>
    /\ tr_target' = NULL
    /\ usedModel' = configuredModel
    /\ tr_resp' = NoTranscribeResponse
    /\ gen_calls' = <<>>

ExtractorReset ==
    /\ ext_pc' = "idle"
    /\ ext_req' = [auth |-> "none", transcript |-> NULL, meetingId |-> NULL]
    /\ ai_reply' = [outcome |-> "none", content |-> <<>>]
    /\ ext_items' = <<>>
    /\ ext_resp' = NoExtractResponse
    /\ UNCHANGED <<ai_calls, insert_calls>>

\* catch and finally: the failure toast, isProcessing back to false.
UploadFails ==
    /\ up_pc' = "idle"
    /\ isProcessing' = FALSE
    /\ up_toast' = "failed"

\* The "No content" return of line 80, or the insert of the meeting record.
AfterTranscriptText(text) ==
    IF TrimString(text) = ""
    THEN /\ up_pc' = "idle"
         /\ isProcessing' = FALSE
         /\ up_toast' = "rejected"
    ELSE /\ up_pc' = "creating"
         /\ isProcessing' = TRUE
         /\ UNCHANGED up_toast

\* A Process button that is enabled while a run is in flight.
canProcessAlways(typed, file) ==
    TrimString(typed) # "" \/ file.kind # "none"

\* canProcess: there is a transcript or a file, and no run is in flight.
canProcess(typed, file) ==
    /\ TrimString(typed) # "" \/ file.kind # "none"
    /\ ~isProcessing

\* The user presses Process (enabled by canProcess): an audio file is
\* uploaded to storage first; a text file's content, or else the typed text,
\* is the transcript.
UploadStart(user, typed, file) ==
    /\ canProcess(typed, file)
    /\ uploads < Len(NewMeetingIds)
    /\ uploads' = uploads + 1
    /\ up_user' = user
    /\ audioUrl' = NULL
    /\ up_meeting' = NULL
    /\ IF file.kind = "audio"
       THEN /\ transcriptText' = typed
            /\ up_pc' = "storing"
            /\ isProcessing' = TRUE
            /\ UNCHANGED up_toast
       ELSE LET text == IF file.kind = "text" THEN file.content ELSE typed
            IN  /\ transcriptText' = text
                /\ AfterTranscriptText(text)
    /\ UNCHANGED <<extraction, storeVars, pubVars, viewVars, extVars, trVars>>

\* storage.upload completes; on success the transcription is invoked.
StorageUploadReturns(outcome) ==
    /\ up_pc = "storing"
    /\ IF outcome = "error"
       THEN UploadFails /\ UNCHANGED audioUrl
       ELSE /\ audioUrl' = UploadAudioUrls[uploads]
            /\ up_pc' = "transcribing"
            /\ UNCHANGED <<isProcessing, up_toast>>
    /\ UNCHANGED <<up_user, transcriptText, up_meeting, uploads, extraction,
                   storeVars, pubVars, viewVars, extVars, trVars>>

\* The view's transcription request reaches the handler.
UploadTranscribeArrives(keyConfigured) ==
    /\ up_pc = "transcribing"
    /\ TranscribeBegin(up_user,
                       [audioUrl |-> audioUrl, filePath |-> UploadFilePath,
                        meetingId |-> NULL, audioBase64 |-> NoPayload,
                  mimeType |-> NULL, fileName |-> NULL],
                       keyConfigured)

\* functions.invoke('transcribe-audio') resolves: an error status is thrown,
\* else the transcript of the answer is taken.
UploadTranscribed ==
    /\ up_pc = "transcribing"
    /\ tr_pc = "done"
    /\ tr_req.filePath = UploadFilePath
    /\ IF tr_resp.status # 200
       THEN UploadFails /\ UNCHANGED transcriptText
       ELSE /\ transcriptText' = tr_resp.transcript
            /\ AfterTranscriptText(tr_resp.transcript)
    /\ TranscriberReset
    /\ UNCHANGED <<up_user, audioUrl, up_meeting, uploads, extraction,
                   storeVars, pubVars, viewVars, extVars>>

\* The insert of the meeting record completes; on success the extraction is
\* invoked.
MeetingInsertReturns(storeFails) ==
    /\ up_pc = "creating"
    /\ IF storeFails
       THEN /\ UploadFails
            /\ UNCHANGED <<meetings, extraction, up_meeting>>
       ELSE LET id == NewMeetingIds[uploads]
            IN  /\ meetings' = meetings @@
                      (id :> [user_id |-> up_user, transcript |-> transcriptText,
                              audio_url |-> audioUrl, created_at |-> uploads,
                              processed_at |-> NULL])
                /\ extraction' = extraction @@ (id :> NoExtraction)
                /\ up_meeting' = id
                /\ up_pc' = "extracting"
                /\ UNCHANGED <<isProcessing, up_toast>>
    /\ UNCHANGED <<up_user, transcriptText, audioUrl, uploads, action_items,
                   integrations, credWrites, pubVars, viewVars, extVars, trVars>>

\* The view's extraction request reaches the handler.
UploadExtractArrives(keyConfigured) ==
    /\ up_pc = "extracting"
    /\ ExtractBegin(up_user, transcriptText, up_meeting, keyConfigured)

\* A view that marks the meeting whatever the extraction answered.
UploadExtractedUnchecked ==
    /\ up_pc = "extracting"
    /\ ext_pc = "done"
    /\ up_pc' = "marking"
    /\ extraction' = [extraction EXCEPT ![up_meeting].upload =
                          IF ext_resp.status = 200 THEN "done" ELSE "failed"]
    /\ ExtractorReset
    /\ UNCHANGED <<up_user, transcriptText, audioUrl, up_meeting, isProcessing,
                   up_toast, uploads, storeVars, pubVars, viewVars, trVars>>

\* functions.invoke('extract-actions') resolves: an error status is thrown,
\* else the update that marks the meeting processed is issued.
UploadExtracted ==
    /\ up_pc = "extracting"
    /\ ext_pc = "done"
    /\ IF ext_resp.status # 200
       THEN /\ UploadFails
            /\ extraction' = [extraction EXCEPT ![up_meeting].upload = "failed"]
       ELSE /\ up_pc' = "marking"
            /\ extraction' = [extraction EXCEPT ![up_meeting].upload = "done"]
            /\ UNCHANGED <<isProcessing, up_toast>>
    /\ ExtractorReset
    /\ UNCHANGED <<up_user, transcriptText, audioUrl, up_meeting, uploads,
                   storeVars, pubVars, viewVars, trVars>>

\* .from('meetings').update({ processed_at }).eq('id', meeting.id), under
\* the policy "Users can update own meetings".
MarkProcessed(rows, id, user) ==
    [m \in DOMAIN rows |->
        IF m = id /\ rows[m].user_id = user
        THEN [rows[m] EXCEPT !.processed_at = "now"]
        ELSE rows[m]]

\* The update completes (its result is not read): the success toast and the
\* navigation; a rejected call goes to the catch.
MarkProcessedReturns(outcome) ==
    /\ up_pc = "marking"
    /\ meetings' = IF outcome = "ok" THEN MarkProcessed(meetings, up_meeting, up_user)
                   ELSE meetings
    /\ up_pc' = "idle"
    /\ isProcessing' = FALSE
    /\ up_toast' = IF outcome = "throw" THEN "failed" ELSE "success"
    /\ UNCHANGED <<up_user, transcriptText, audioUrl, up_meeting, uploads,
                   extraction, action_items, integrations, credWrites, pubVars, viewVars,
                   extVars, trVars>>

\* A transcription request from any other client arrives.
DirectTranscribeBegin(auth, body, keyConfigured) ==
    /\ up_pc # "transcribing"
    /\ body.meetingId \in DOMAIN meetings \cup {NULL}
    /\ TranscribeBegin(auth, body, keyConfigured)

----------------------------------------------------------------------------
\* Meeting view: MeetingDetail.

\* select('*').eq('meeting_id', id) under the policy "Users can view own
\* action items".
VisibleRows(meeting, user) ==
    {row \in Range(action_items) : row.meeting_id = meeting /\ row.user_id = user}

\* A read that returns the rows in any order.
UnorderedReads(rows) ==
    {order \in [1..Cardinality(rows) -> rows] :
        \A i, j \in DOMAIN order : i < j => order[i] # order[j]}

\* .order('created_at', { ascending: true }): the rows in some order that is
\* ascending in created_at; rows of equal created_at come in any order.
OrderedReads(rows) ==
    {order \in [1..Cardinality(rows) -> rows] :
        /\ \A i, j \in DOMAIN order : i < j =>
              /\ order[i] # order[j]
              /\ order[i].created_at <= order[j].created_at}

\* What an inline edit can set.
EditUpdates == [field : {"status"}, value : {"In Progress", "Done"}]

NoEdit == [pc |-> "none", id |-> 0, updates |-> [field |-> "none", value |-> "none"]]

\* { ...item, ...updates }
MergeUpdates(item, updates) == [item EXCEPT ![updates.field] = updates.value]

\* .update(updates).eq('id', itemId) under the policy "Users can update own
\* action items".
UpdateItem(rows, user, id, updates) ==
    [k \in 1..Len(rows) |->
        IF rows[k].id = id /\ rows[k].user_id = user
        THEN MergeUpdates(rows[k], updates)
        ELSE rows[k]]

\* The subscription callback applied to the list.
ApplyEvent(prev, event) ==
    CASE event.eventType = "UPDATE" ->
            [k \in 1..Len(prev) |->
                IF prev[k].id = event.new.id THEN event.new ELSE prev[k]]
      [] event.eventType = "INSERT" -> Append(prev, event.new)
      [] OTHER -> prev

\* useEffect([user, id]): the view mounts, starts fetchMeetingData and asks
\* for the subscription.
ViewOpen(v) ==
    /\ view_fetch[v] = "closed"
    /\ view_fetch' = [view_fetch EXCEPT ![v] = "sent"]
    /\ shown' = [shown EXCEPT ![v] = ViewMeeting]
    /\ UNCHANGED <<joined, snapshot, actionItems, edit, update_calls, channel, missed,
                   subscribed, authVars, extraction, upVars, exportVars, storeVars, pubVars, extVars, trVars>>

\* The realtime server has joined the view's channel.
SubscribeJoined(v) ==
    /\ view_fetch[v] # "closed"
    /\ ~joined[v]
    /\ joined' = [joined EXCEPT ![v] = TRUE]
    /\ subscribed' = [subscribed EXCEPT ![v] = @ \cup {shown[v]}]
    /\ UNCHANGED <<view_fetch, snapshot, actionItems, edit, update_calls, channel,
                   missed, shown, authVars, extraction, upVars, exportVars, storeVars, pubVars, extVars, trVars>>

\* The store runs the item query of fetchMeetingData.
FetchExecutes(v, order) ==
    /\ view_fetch[v] = "sent"
    /\ order \in OrderedReads(VisibleRows(shown[v], ViewUser))
    /\ snapshot' = [snapshot EXCEPT ![v] = order]
    /\ view_fetch' = [view_fetch EXCEPT ![v] = "answered"]
    /\ UNCHANGED <<joined, actionItems, edit, update_calls, channel, missed, navVars, authVars,
                   extraction, upVars, exportVars, storeVars, pubVars, extVars, trVars>>

\* The query's answer arrives: setActionItems(itemsData || []).
FetchReturns(v) ==
    /\ view_fetch[v] = "answered"
    /\ actionItems' = [actionItems EXCEPT ![v] = snapshot[v]]
    /\ snapshot' = [snapshot EXCEPT ![v] = <<>>]
    /\ view_fetch' = [view_fetch EXCEPT ![v] = "done"]
    /\ UNCHANGED <<joined, edit, update_calls, channel, missed, navVars, authVars,
                   extraction, upVars, exportVars, storeVars, pubVars, extVars, trVars>>

\* The next change event of one of the view's channels reaches its callback
\* (setActionItems of a view that is no longer mounted changes nothing).
EventDelivered(v) ==
    /\ channel[v] # <<>>
    /\ actionItems' = [actionItems EXCEPT ![v] =
                           IF view_fetch[v] = "closed" THEN @
                           ELSE ApplyEvent(@, Head(channel[v]))]
    /\ channel' = [channel EXCEPT ![v] = Tail(channel[v])]
    /\ UNCHANGED <<view_fetch, joined, snapshot, edit, update_calls, missed, navVars, authVars,
                   extraction, upVars, exportVars, storeVars, pubVars, extVars, trVars>>

\* handleEdit -> handleUpdateItem: the edit of one field of a listed item
\* sends its update statement at once.
EditItem(v, id, updates) ==
    /\ view_fetch[v] = "done"
    /\ edit[v] = NoEdit
    /\ \E k \in 1..Len(actionItems[v]) : actionItems[v][k].id = id
    /\ Len(update_calls) < MaxEdits
    /\ edit' = [edit EXCEPT ![v] = [pc |-> "sent", id |-> id, updates |-> updates]]
    /\ update_calls' = Append(update_calls, [view |-> v, id |-> id, updates |-> updates])
    /\ UNCHANGED <<view_fetch, joined, snapshot, actionItems, channel, missed, navVars, authVars,
                   extraction, upVars, exportVars, storeVars, pubVars, extVars, trVars>>

\* The store runs the update statement, or fails to.
UpdateExecutes(v, storeFails) ==
    /\ edit[v].pc = "sent"
    /\ LET updated == UpdateItem(action_items, ViewUser, edit[v].id, edit[v].updates)
       IN  IF storeFails
           THEN /\ edit' = [edit EXCEPT ![v].pc = "error"]
                /\ UNCHANGED <<action_items, channel, missed>>
           ELSE /\ edit' = [edit EXCEPT ![v].pc = "ok"]
                /\ action_items' = updated
                /\ Broadcast(SelectSeq(updated, LAMBDA row : /\ row.id = edit[v].id
                                                             /\ row.user_id = ViewUser),
                             "UPDATE")
    /\ UNCHANGED <<view_fetch, joined, snapshot, actionItems, update_calls, navVars, authVars,
                   meetings, integrations, credWrites,
                   extraction, upVars, exportVars, pubVars, extVars, trVars>>

\* A view that shows the edited value whatever the store answered.
UpdateReturnsOptimistic(v) ==
    /\ edit[v].pc \in {"ok", "error"}
    /\ actionItems' = [actionItems EXCEPT ![v] =
            [k \in 1..Len(actionItems[v]) |->
                IF actionItems[v][k].id = edit[v].id
                THEN MergeUpdates(actionItems[v][k], edit[v].updates)
                ELSE actionItems[v][k]]]
    /\ edit' = [edit EXCEPT ![v] = NoEdit]
    /\ UNCHANGED <<view_fetch, joined, snapshot, update_calls, channel, missed, navVars, authVars,
                   extraction, upVars, exportVars, storeVars, pubVars, extVars, trVars>>

\* The answer of the update arrives: on success the item is merged with the
\* updates in the local list; on an error the list is left alone (a toast
\* is shown).
UpdateReturns(v) ==
    /\ edit[v].pc \in {"ok", "error"}
    /\ actionItems' = [actionItems EXCEPT ![v] =
            IF edit[v].pc = "error" THEN actionItems[v]
            ELSE [k \in 1..Len(actionItems[v]) |->
                    IF actionItems[v][k].id = edit[v].id
                    THEN MergeUpdates(actionItems[v][k], edit[v].updates)
                    ELSE actionItems[v][k]]]
    /\ edit' = [edit EXCEPT ![v] = NoEdit]
    /\ UNCHANGED <<view_fetch, joined, snapshot, update_calls, channel, missed, navVars, authVars,
                   extraction, upVars, exportVars, storeVars, pubVars, extVars, trVars>>

\* The route's id changes while the view is mounted: the effect of
\* useEffect([user, id]) runs again, with fetchMeetingData and a channel for
\* the new id. The effect returns no cleanup, so the channels made before
\* stay on the client; the state actionItems stays until the fetch answers.
ViewNavigate(v, meetingId) ==
    /\ view_fetch[v] = "done"
    /\ edit[v] = NoEdit
    /\ meetingId # shown[v]
    /\ shown' = [shown EXCEPT ![v] = meetingId]
    /\ view_fetch' = [view_fetch EXCEPT ![v] = "sent"]
    /\ joined' = [joined EXCEPT ![v] = meetingId \in subscribed[v]]
    /\ UNCHANGED <<subscribed, snapshot, actionItems, edit, update_calls, channel, missed,
                   authVars,
                   extraction, upVars, exportVars, storeVars, pubVars, extVars, trVars>>

\* The view unmounts: its state is gone; no removeChannel runs.
ViewClose(v) ==
    /\ view_fetch[v] = "done"
    /\ edit[v] = NoEdit
    /\ shown' = [shown EXCEPT ![v] = NULL]
    /\ view_fetch' = [view_fetch EXCEPT ![v] = "closed"]
    /\ joined' = [joined EXCEPT ![v] = FALSE]
    /\ actionItems' = [actionItems EXCEPT ![v] = <<>>]
    /\ UNCHANGED <<subscribed, snapshot, edit, update_calls, channel, missed, authVars,
                   extraction, upVars, exportVars, storeVars, pubVars, extVars, trVars>>

----------------------------------------------------------------------------
\* AuthProvider: the session restore started on load, and signOut.

\* Sessions: an earlier one ("s0") and the latest one ("s1") at load, and
\* the one of a later sign-in. A cache item that JSON.parse rejects is "{bad".
Sessions == {"s0", "s1", "s2"}
Corrupt == "{bad"
SessionUser(session) == IF session = NULL THEN NULL ELSE "u1"

\* readCachedSession: null without an item; an item that does not parse is
\* removed.
readCachedSession(item) == IF item \in Sessions THEN item ELSE NULL

\* applySession(nextSession), of a mounted provider.
applySession(nextSession) ==
    /\ auth_session' = nextSession
    /\ auth_user' = SessionUser(nextSession)
    /\ cache' = nextSession
    /\ loading' = FALSE

othersUnchanged ==
    UNCHANGED <<storeVars, pubVars, extVars, trVars, extraction, upVars, view_fetch,
                joined, snapshot, actionItems, edit, update_calls, navVars, channel,
                missed, exportVars>>

\* The effect of AuthProvider runs: the cached session is shown at once, and
\* initSession calls getSession.
Mount ==
    /\ init_pc = "unmounted"
    /\ cachedSession' = readCachedSession(cache)
    /\ cache' = IF cache = Corrupt THEN NULL ELSE cache
    /\ IF readCachedSession(cache) # NULL
       THEN /\ auth_session' = readCachedSession(cache)
            /\ auth_user' = SessionUser(readCachedSession(cache))
       ELSE UNCHANGED <<auth_session, auth_user>>
    /\ init_pc' = "getSession"
    /\ UNCHANGED <<loading, stored, out_pc, signIns, signedOut>>
    /\ othersUnchanged

\* getSession answers: an existing session is applied; without one, the
\* cached tokens go to setSession, and without those null is applied. When
\* it throws, the cached session is applied.
GetSessionReturns(outcome) ==
    /\ init_pc = "getSession"
    /\ IF outcome = "throw"
       THEN applySession(cachedSession) /\ init_pc' = "done"
       ELSE IF stored # NULL
       THEN applySession(stored) /\ init_pc' = "done"
       ELSE IF cachedSession # NULL
       THEN /\ init_pc' = "setSession"
            /\ UNCHANGED <<auth_session, auth_user, cache, loading>>
       ELSE applySession(NULL) /\ init_pc' = "done"
    /\ UNCHANGED <<cachedSession, stored, out_pc, signIns, signedOut>>
    /\ othersUnchanged

\* setSession answers: its session is applied (the client holds it, and has
\* told its listeners of the sign-in); an error applies null; when it
\* throws, the cached session is applied.
SetSessionReturns(outcome) ==
    /\ init_pc = "setSession"
    /\ init_pc' = "done"
    /\ IF outcome = "ok"
       THEN /\ stored' = cachedSession
            /\ applySession(cachedSession)
            /\ signedOut' = FALSE
       ELSE /\ applySession(IF outcome = "throw" THEN cachedSession ELSE NULL)
            /\ UNCHANGED <<stored, signedOut>>
    /\ UNCHANGED <<cachedSession, out_pc, signIns>>
    /\ othersUnchanged

\* The Sign Out button of the header, shown while user is set.
SignOutCall ==
    /\ init_pc # "unmounted"
    /\ out_pc = "idle"
    /\ auth_user # NULL
    /\ out_pc' = "called"
    /\ UNCHANGED <<auth_user, auth_session, loading, cache, cachedSession, stored,
                   init_pc, signIns, signedOut>>
    /\ othersUnchanged

\* supabase.auth.signOut() answers (the client has dropped its session and
\* told the listener, which applies null): the cache item is removed, and
\* session and user are set to null. When it throws, signOut ends there.
SignOutReturns(outcome) ==
    /\ out_pc = "called"
    /\ out_pc' = "idle"
    /\ IF outcome = "throw"
       THEN UNCHANGED <<auth_user, auth_session, loading, cache, stored, signedOut>>
       ELSE /\ stored' = NULL
            /\ applySession(NULL)
            /\ signedOut' = TRUE
    /\ UNCHANGED <<cachedSession, init_pc, signIns>>
    /\ othersUnchanged

\* onAuthStateChange: a sign-in (signInWithPassword has succeeded) reaches
\* the listener with its session.
SignedInEvent ==
    /\ init_pc # "unmounted"
    /\ auth_user = NULL
    /\ signIns < MaxSignIns
    /\ signIns' = signIns + 1
    /\ stored' = "s2"
    /\ applySession("s2")
    /\ signedOut' = FALSE
    /\ UNCHANGED <<cachedSession, init_pc, out_pc>>
    /\ othersUnchanged

----------------------------------------------------------------------------
\* Export panel: exportAsJSON.

\* Characters of the texts the items hold: a letter, the letter n, the
\* double quote, the backslash and the line feed.
TextChars == {"a", "n", "QUOTE", "BACKSLASH", "LINEFEED"}

\* A nullable text field: null or a string (a sequence of characters).
Null == [t |-> "null", s |-> <<>>]
String(chars) == [t |-> "string", s |-> chars]

ExportStrings ==
    {String(<<>>), String(<<"a", "QUOTE", "BACKSLASH", "n">>),
     String(<<"LINEFEED", "a">>), String(<<"n", "u", "l", "l">>)}
ExportValues == {Null} \cup ExportStrings

\* The items the panel can be given (interface ActionItem).
ExportItems ==
    [id : {1}, action_item : {String(<<"a">>), String(<<"QUOTE", "BACKSLASH">>)},
     owner : ExportValues, owner_email : {Null, String(<<"a">>)},
     deadline : {Null, String(<<"a">>)}, priority : {String(<<"a">>)},
     status : {String(<<"n">>)}, confidence : {90},
     notes : ExportValues, jira_issue_key : {Null, String(<<"a">>)}]

\* The lists the panel can be given: no item, one item, or two items with
\* ids 1 and 2.
SecondItem ==
    [id |-> 2, action_item |-> String(<<"n">>), owner |-> Null, owner_email |-> Null,
     deadline |-> Null, priority |-> String(<<"n">>), status |-> String(<<"a">>),
     confidence |-> 60, notes |-> String(<<"QUOTE">>), jira_issue_key |-> Null]
ExportLists ==
    {<<>>} \cup {<<item>> : item \in ExportItems}
    \cup {<<item, SecondItem>> : item \in ExportItems}
    \cup {<<SecondItem, item>> : item \in ExportItems}

NoProps == [actionItems |-> <<>>, selectedItems |-> {}]
NoText == [exported |-> FALSE, text |-> <<>>]

\* selectedItems.length > 0 ? actionItems.filter(...) : actionItems
itemsToExport(props) ==
    IF props.selectedItems # {}
    THEN SelectSeq(props.actionItems, LAMBDA item : item.id \in props.selectedItems)
    ELSE props.actionItems

\* A serializer that writes the characters of a string as they are.
EscapeCharVerbatim(c) == <<c>>

\* JSON.stringify's escaping of one character of a string.
EscapeChar(c) ==
    CASE c = "QUOTE" -> <<"BACKSLASH", "QUOTE">>
      [] c = "BACKSLASH" -> <<"BACKSLASH", "BACKSLASH">>
      [] c = "LINEFEED" -> <<"BACKSLASH", "n">>
      [] OTHER -> <<c>>

RECURSIVE EscapeChars(_)
EscapeChars(chars) ==
    IF chars = <<>> THEN <<>> ELSE EscapeChar(Head(chars)) \o EscapeChars(Tail(chars))

\* JSON.stringify of a field value: the text null, or the quoted string.
StringifyValue(value) ==
    IF value.t = "null" THEN <<"n", "u", "l", "l">>
    ELSE <<"QUOTE">> \o EscapeChars(value.s) \o <<"QUOTE">>

\* The keys of an exported object.
ExportKeys == {"actionItem", "owner", "ownerEmail", "deadline", "priority", "status", "notes"}

\* The object exportAsJSON builds for one item.
ExportData(item) ==
    [actionItem |-> item.action_item, owner |-> item.owner, ownerEmail |-> item.owner_email,
     deadline |-> item.deadline, priority |-> item.priority, status |-> item.status,
     notes |-> item.notes]

\* JSON.stringify(exportData, null, 2): per item, the text of each key's
\* value (the array and object punctuation is kept as structure).
JsonStringify(items) ==
    [k \in 1..Len(items) |->
        [key \in ExportKeys |-> StringifyValue(ExportData(items[k])[key])]]

\* The inside of a JSON string text, unescaped; "bad" when an escape or a
\* bare quote is not valid.
RECURSIVE UnescapeChars(_)
UnescapeChars(text) ==
    IF text = <<>> THEN <<>>
    ELSE IF Head(text) = "QUOTE" \/ Head(text) = "LINEFEED" THEN <<"bad">>
    ELSE IF Head(text) = "BACKSLASH"
        THEN IF Len(text) < 2 THEN <<"bad">>
             ELSE LET c == text[2]
                      rest == UnescapeChars(Tail(Tail(text)))
                  IN  CASE c = "QUOTE" -> <<"QUOTE">> \o rest
                        [] c = "BACKSLASH" -> <<"BACKSLASH">> \o rest
                        [] c = "n" -> <<"LINEFEED">> \o rest
                        [] OTHER -> <<"bad">>
    ELSE <<Head(text)>> \o UnescapeChars(Tail(text))

\* JSON.parse of a value text.
ParseValue(text) ==
    IF text = <<"n", "u", "l", "l">> THEN Null
    ELSE IF Len(text) >= 2 /\ text[1] = "QUOTE" /\ text[Len(text)] = "QUOTE"
        THEN LET chars == UnescapeChars(SubSeq(text, 2, Len(text) - 1))
             IN  IF "bad" \in Range(chars) THEN [t |-> "error", s |-> <<>>]
                 ELSE String(chars)
    ELSE [t |-> "error", s |-> <<>>]

\* JSON.parse of the downloaded text.
JsonParse(text) ==
    [k \in 1..Len(text) |-> [key \in DOMAIN text[k] |-> ParseValue(text[k][key])]]

\* The panel is rendered with a list and a selection.
RenderPanel(props) ==
    /\ json = NoText
    /\ export_props = NoProps
    /\ props # NoProps
    /\ export_props' = props
    /\ UNCHANGED <<json, storeVars, pubVars, extVars, trVars, extraction, upVars,
                   viewLocals, channel, missed>>

\* The user chooses "Export as JSON".
exportAsJSON ==
    /\ export_props # NoProps
    /\ json = NoText
    /\ json' = [exported |-> TRUE, text |-> JsonStringify(itemsToExport(export_props))]
    /\ UNCHANGED <<export_props, storeVars, pubVars, extVars, trVars, extraction,
                   upVars, viewLocals, channel, missed>>

----------------------------------------------------------------------------
InitStore ==
    /\ action_items = InitialItems
    /\ meetings = InitialMeetings
    /\ integrations = [u \in Users |-> NoRow]
    /\ credWrites = 0

InitPublisher ==
    /\ pub_pc = "idle"
    /\ pub_user = NULL
    /\ pub_items = <<>>
    /\ pub_integration = NoRow
    /\ pub_idx = 1
    /\ createdIssues = <<>>
    /\ errors = <<>>
    /\ pub_resp = NoResponse
    /\ calls = <<>>

InitExtractor ==
    /\ ext_pc = "idle"
    /\ ext_req = [auth |-> "none", transcript |-> NULL, meetingId |-> NULL]
    /\ ai_reply = [outcome |-> "none", content |-> <<>>]
    /\ ext_items = <<>>
    /\ ext_resp = NoExtractResponse
    /\ ai_calls = 0
    /\ insert_calls = <<>>

InitTranscriber ==
    /\ tr_pc = "idle"
    /\ tr_req = [auth |-> "none", audioUrl |-> NULL, filePath |-> NULL,
                 meetingId |-> NULL, audioBase64 |-> NoPayload,
                  mimeType |-> NULL, fileName |-> NULL]
    /\ tr_bytes = 0
    /\ tr_encoded = 0
    /\ geminiText = <<>>
    /\ tr_transcript = ""
    /\ tr_items = <<>>
    /\ tr_target = NULL
    /\ usedModel = configuredModel
    /\ tr_resp = NoTranscribeResponse
    /\ gen_calls = <<>>

InitFlows ==
    /\ extraction = [m \in MeetingIds |-> NoExtraction]
    /\ up_pc = "idle"
    /\ up_user = NULL
    /\ transcriptText = ""
    /\ audioUrl = NULL
    /\ up_meeting = NULL
    /\ isProcessing = FALSE
    /\ up_toast = "none"
    /\ uploads = 0

InitViews ==
    /\ view_fetch = [v \in Views |-> "closed"]
    /\ joined = [v \in Views |-> FALSE]
    /\ shown = [v \in Views |-> NULL]
    /\ subscribed = [v \in Views |-> {}]
    /\ channel = [v \in Views |-> <<>>]
    /\ missed = {}
    /\ snapshot = [v \in Views |-> <<>>]
    /\ actionItems = [v \in Views |-> <<>>]
    /\ edit = [v \in Views |-> NoEdit]
    /\ update_calls = <<>>
    /\ export_props = NoProps
    /\ json = NoText

InitAuth ==
    /\ auth_user = NULL
    /\ auth_session = NULL
    /\ loading = TRUE
    /\ cache = NULL
    /\ cachedSession = NULL
    /\ stored = NULL
    /\ init_pc = "unmounted"
    /\ out_pc = "idle"
    /\ signIns = 0
    /\ signedOut = FALSE

Init ==
    /\ InitStore /\ InitPublisher /\ InitExtractor /\ InitTranscriber
    /\ InitFlows /\ InitViews /\ InitAuth

\* The page loads with or without a cache item and a session in the auth
\* client.
InitSessions ==
    /\ InitStore /\ InitPublisher /\ InitExtractor /\ InitTranscriber
    /\ InitFlows /\ InitViews
    /\ auth_user = NULL
    /\ auth_session = NULL
    /\ loading = TRUE
    /\ cache \in {NULL, "s0", "s1", Corrupt}
    /\ cachedSession = NULL
    /\ stored \in {NULL, "s1"}
    /\ init_pc = "unmounted"
    /\ out_pc = "idle"
    /\ signIns = 0
    /\ signedOut = FALSE

GetSessionReturnsStep == \E outcome \in {"ok", "throw"} : GetSessionReturns(outcome)
SetSessionReturnsStep ==
    \E outcome \in {"ok", "error", "throw"} : SetSessionReturns(outcome)
SignOutReturnsStep == \E outcome \in {"ok", "throw"} : SignOutReturns(outcome)

NextAuth ==
    \/ Mount
    \/ GetSessionReturnsStep
    \/ SetSessionReturnsStep
    \/ SignOutCall
    \/ SignOutReturnsStep
    \/ SignedInEvent

\* The session restore on load, sign-outs and a sign-in.
SpecAuth == InitSessions /\ [][NextAuth]_vars

ConnectStep == \E u \in Users, filled \in SUBSET CredFields : connectJira(u, filled)
DisconnectStep == \E u \in Users : disconnectJira(u)
StoreCredentialStep == \E u \in Users, row \in CredRows : StoreCredential(u, row)
PublishBeginStep ==
    \E auth \in AuthValues, batch \in Batches, queryFails \in BOOLEAN :
        PublishBegin(auth, batch, queryFails)
CreateReturnsStep == \E outcome \in {"ok", "status", "throw"} : CreateReturns(outcome)
WriteBackStep == \E outcome \in {"ok", "error", "throw"} : WriteBack(outcome)

NextPublish ==
    \/ ConnectStep
    \/ DisconnectStep
    \/ StoreCredentialStep
    \/ PublishBeginStep
    \/ IssueCreate
    \/ CreateReturnsStep
    \/ WriteBackStep
    \/ PublishRespond

\* The Publisher with the credential store around it.
SpecPublish == Init /\ [][NextPublish]_vars

ExtractBeginStep ==
    \E auth \in AuthValues, transcript \in {NULL, "text"},
       meetingId \in MeetingIds \cup {NULL, "m9"}, keyConfigured \in BOOLEAN :
        ExtractBegin(auth, transcript, meetingId, keyConfigured)
InferenceReturnsStep ==
    /\ ext_pc = "awaiting"
    /\ \E outcome \in {"ok", "429", "402", "500", "throw"}, content \in Contents :
          InferenceReturns(outcome, content)
InsertReturnsStep == \E storeFails \in BOOLEAN : InsertReturns(storeFails)

NextExtract ==
    \/ ExtractBeginStep
    \/ InferenceReturnsStep
    \/ InsertReturnsStep

\* One extraction request against the store.
SpecExtract == Init /\ [][NextExtract]_vars

\* The inputs of repeated extraction requests for meeting m1: replies that
\* are arrays of up to two candidates, one of which the table rejects.
PersistCandidates ==
    {[kind |-> "object", actionItem |-> Str("Send the report"), priority |-> p,
      confidence |-> Num(95)] : p \in PriorityValues}
PersistContents ==
    {<<ValueTok(JsonArray(<<>>))>>}
    \cup {<<ValueTok(JsonArray(<<a>>))>> : a \in PersistCandidates}
    \cup {<<ValueTok(JsonArray(<<a, b>>))>> : a \in PersistCandidates, b \in PersistCandidates}

PersistBeginStep ==
    /\ ai_calls < MaxRuns
    /\ \E auth \in Users : ExtractBegin(auth, "text", "m1", TRUE)
PersistInferenceReturnsStep ==
    \E outcome \in {"ok", "429", "402", "500", "throw"}, content \in PersistContents :
        InferenceReturns(outcome, content)

\* The response has been delivered; the next request finds a fresh handler.
ExtractDelivered ==
    /\ ext_pc = "done"
    /\ up_pc # "extracting"
    /\ ExtractorReset
    /\ UNCHANGED <<storeVars, pubVars, trVars, flowVars>>

NextPersist ==
    \/ PersistBeginStep
    \/ PersistInferenceReturnsStep
    \/ InsertReturnsStep
    \/ ExtractDelivered

\* Extraction requests for one meeting, one after the other.
SpecPersist == Init /\ [][NextPersist]_vars

\* The meeting views with one extraction request that adds a row to the
\* meeting they show.
ViewContent ==
    <<ValueTok(JsonArray(<<[kind |-> "object", actionItem |-> Str("Send the report"),
                           priority |-> Str("High"), confidence |-> Num(95)]>>))>>

ViewOpenStep == \E v \in Views : ViewOpen(v)
SubscribeJoinedStep == \E v \in Views : SubscribeJoined(v)
FetchExecutesStep ==
    \E v \in Views, order \in OrderedReads(VisibleRows(ViewMeeting, ViewUser)) :
        FetchExecutes(v, order)
FetchReturnsStep == \E v \in Views : FetchReturns(v)
EventDeliveredStep == \E v \in Views : EventDelivered(v)
EditItemStep ==
    \E v \in Views :
        EditItem(v, 1, [field |-> "status",
                        value |-> IF v = "v1" THEN "Done" ELSE "In Progress"])
UpdateExecutesStep == \E v \in Views, storeFails \in BOOLEAN : UpdateExecutes(v, storeFails)
UpdateReturnsStep == \E v \in Views : UpdateReturns(v)
ViewExtractBeginStep ==
    /\ ai_calls = 0
    /\ ExtractBegin(ViewUser, "text", ViewMeeting, TRUE)
ViewInferenceReturnsStep == InferenceReturns("ok", ViewContent)
ViewInsertReturnsStep == InsertReturns(FALSE)

NextView ==
    \/ ViewOpenStep
    \/ SubscribeJoinedStep
    \/ FetchExecutesStep
    \/ FetchReturnsStep
    \/ EventDeliveredStep
    \/ EditItemStep
    \/ UpdateExecutesStep
    \/ UpdateReturnsStep
    \/ ViewExtractBeginStep
    \/ ViewInferenceReturnsStep
    \/ ViewInsertReturnsStep

\* Two views of one meeting, their edits, and an extraction that adds a row.
SpecView == Init /\ [][NextView]_vars

\* One extraction request for meeting m1 and a view that reads the
\* meeting's items.
ReadBackBeginStep ==
    /\ ai_calls = 0
    /\ \E auth \in Users : ExtractBegin(auth, "text", ViewMeeting, TRUE)
ReadBackOpen == ViewOpen("v1")
ReadBackFetchExecutes ==
    \E order \in OrderedReads(VisibleRows(ViewMeeting, ViewUser)) :
        FetchExecutes("v1", order)
ReadBackFetchReturns == FetchReturns("v1")

NextReadBack ==
    \/ ReadBackBeginStep
    \/ PersistInferenceReturnsStep
    \/ InsertReturnsStep
    \/ ReadBackOpen
    \/ ReadBackFetchExecutes
    \/ ReadBackFetchReturns

SpecReadBack == Init /\ [][NextReadBack]_vars

RenderPanelStep ==
    /\ export_props = NoProps
    /\ \E items \in ExportLists, selected \in SUBSET {1, 2} :
          RenderPanel([actionItems |-> items, selectedItems |-> selected])

NextExport ==
    \/ RenderPanelStep
    \/ exportAsJSON

\* One export of the panel's items.
SpecExport == Init /\ [][NextExport]_vars

TranscribeBeginStep ==
    \E auth \in AuthValues, body \in TranscribeBodies, keyConfigured \in BOOLEAN :
        TranscribeBegin(auth, body, keyConfigured)
AudioLoadedStep ==
    \E outcome \in {"ok", "error"}, bytes \in AudioSizes : AudioLoaded(outcome, bytes, "")
GenerateReturnsStep ==
    \/ \E text \in GeminiTexts :
          GenerateReturns("ok", text, [isError |-> FALSE, words |-> {}])
    \/ \E error \in GenerateErrors : GenerateReturns("throw", <<>>, error)
LookupReturnsStep ==
    \E queryFails \in BOOLEAN, found \in DOMAIN meetings \cup {NULL} :
        LookupReturns(queryFails, found)
MeetingUpdateReturnsStep == \E storeFails \in BOOLEAN : MeetingUpdateReturns(storeFails)

NextTranscribe ==
    \/ TranscribeBeginStep
    \/ AudioLoadedStep
    \/ GenerateReturnsStep
    \/ LookupReturnsStep
    \/ MeetingUpdateReturnsStep

\* One transcription request against the store.
SpecTranscribe == Init /\ [][NextTranscribe]_vars

\* Transcription requests that differ in the caller's media type and file
\* name, in the data-URI prefix of the payload, and in the type of the blob
\* a download or a fetch returns.
MediaBodies ==
    [audioUrl : {NULL, "https://cdn/a.ogg"}, filePath : {NULL, "u1/talk.m4a"},
     meetingId : {NULL},
     audioBase64 : {NoPayload} \cup
                   [kind : {"data"}, bytes : {3}, padded : {TRUE},
                    prefix : {NULL, "audio/webm"}],
     mimeType : {NULL, " ", "audio/wav"}, fileName : {NULL, "memo.mp3"}]
BlobTypes == {"", "audio/flac"}
MediaBeginStep ==
    /\ tr_pc = "idle"
    /\ \E body \in MediaBodies : TranscribeBegin("u1", body, TRUE)
MediaAudioLoadedStep ==
    \E outcome \in {"ok", "error"}, blobType \in BlobTypes :
        AudioLoaded(outcome, 3, blobType)
MediaGenerateReturnsStep ==
    \/ \E text \in {<<>>, <<Text>>} :
          GenerateReturns("ok", text, [isError |-> FALSE, words |-> {}])
    \/ \E error \in {e \in GenerateErrors : e.words \in {{}, {"model", "not found"}}} :
          GenerateReturns("throw", <<>>, error)

NextMediaType ==
    \/ MediaBeginStep
    \/ MediaAudioLoadedStep
    \/ MediaGenerateReturnsStep
    \/ LookupReturnsStep

\* One transcription request, over the inputs of the media type.
SpecMediaType == Init /\ [][NextMediaType]_vars

\* A meetings table where u1 has two meetings with audio_url "a1", created
\* at c1 and c3, and one with another URL created after both; u2 has a
\* meeting with audio_url "a1" created after all of them.
LookupMeetingIds == {"m1", "m2", "m3", "m4"}
LookupMeetings(c1, c3) ==
    [m \in LookupMeetingIds |->
        [user_id |-> IF m = "m2" THEN "u2" ELSE "u1",
         transcript |-> "text",
         audio_url |-> IF m = "m4" THEN "a2" ELSE "a1",
         created_at |-> CASE m = "m1" -> c1 [] m = "m2" -> 5 [] m = "m3" -> c3
                          [] OTHER -> 4,
         processed_at |-> NULL]]
InitLookup ==
    /\ \E c1 \in {1, 2, 3}, c3 \in {1, 2, 3} : meetings = LookupMeetings(c1, c3)
    /\ action_items = InitialItems
    /\ integrations = [u \in Users |-> NoRow]
    /\ credWrites = 0
    /\ InitPublisher /\ InitExtractor /\ InitTranscriber /\ InitViews /\ InitAuth
    /\ extraction = [m \in LookupMeetingIds |-> NoExtraction]
    /\ up_pc = "idle"
    /\ up_user = NULL
    /\ transcriptText = ""
    /\ audioUrl = NULL
    /\ up_meeting = NULL
    /\ isProcessing = FALSE
    /\ up_toast = "none"
    /\ uploads = 0

\* Requests that name no meeting: by audio URL, or with inline audio only.
LookupBodies ==
    [audioUrl : {NULL, "a1", "a2", "a9"}, filePath : {NULL}, meetingId : {NULL},
     audioBase64 : {[kind |-> "data", bytes |-> 3, padded |-> TRUE, prefix |-> NULL]},
     mimeType : {NULL}, fileName : {NULL}]
LookupBeginStep ==
    /\ tr_pc = "idle"
    /\ \E auth \in Users, body \in LookupBodies : TranscribeBegin(auth, body, TRUE)
LookupGenerateReturnsStep ==
    \/ \E text \in {<<>>, <<Text>>} :
          GenerateReturns("ok", text, [isError |-> FALSE, words |-> {}])
    \/ \E error \in {e \in GenerateErrors : e.words = {}} :
          GenerateReturns("throw", <<>>, error)

NextLookup ==
    \/ LookupBeginStep
    \/ LookupGenerateReturnsStep
    \/ LookupReturnsStep
    \/ MeetingUpdateReturnsStep

\* One transcription request that names no meeting, against a table with
\* several meetings of one audio URL.
SpecLookup == InitLookup /\ [][NextLookup]_vars

\* A store where u1 has the meetings m1, m3 and m4, with items in m1 and m3.
NavigateItems ==
    << ItemRow(1, "u1", "m1", "task-a", "High", "Open", 90),
       ItemRow(2, "u1", "m3", "task-b", "Low", "Open", 60) >>
NavigateTargets == {"m1", "m3"}
InitNavigate ==
    /\ meetings = LookupMeetings(1, 2)
    /\ action_items = NavigateItems
    /\ integrations = [u \in Users |-> NoRow]
    /\ credWrites = 0
    /\ InitPublisher /\ InitExtractor /\ InitTranscriber /\ InitViews /\ InitAuth
    /\ extraction = [m \in LookupMeetingIds |-> NoExtraction]
    /\ up_pc = "idle"
    /\ up_user = NULL
    /\ transcriptText = ""
    /\ audioUrl = NULL
    /\ up_meeting = NULL
    /\ isProcessing = FALSE
    /\ up_toast = "none"
    /\ uploads = 0

NavigateOpenStep == ViewOpen("v1")
NavigateJoinedStep == SubscribeJoined("v1")
NavigateFetchExecutesStep ==
    /\ view_fetch["v1"] = "sent"
    /\ \E order \in OrderedReads(VisibleRows(shown["v1"], ViewUser)) :
          FetchExecutes("v1", order)
NavigateFetchReturnsStep == FetchReturns("v1")
NavigateEventDeliveredStep == EventDelivered("v1")
ViewNavigateStep == \E meetingId \in NavigateTargets : ViewNavigate("v1", meetingId)
ViewCloseStep == ViewClose("v1")

NextNavigate ==
    \/ NavigateOpenStep
    \/ NavigateJoinedStep
    \/ NavigateFetchExecutesStep
    \/ NavigateFetchReturnsStep
    \/ NavigateEventDeliveredStep
    \/ ViewNavigateStep
    \/ ViewCloseStep
    \/ ViewExtractBeginStep
    \/ ViewInferenceReturnsStep
    \/ ViewInsertReturnsStep

\* One view that goes from meeting to meeting and is closed and opened
\* again, and an extraction that adds a row to the first meeting.
SpecNavigate == InitNavigate /\ [][NextNavigate]_vars

\* The answer to a direct transcription request has been delivered.
DirectTranscribeDelivered ==
    /\ tr_pc = "done"
    /\ tr_req.filePath # UploadFilePath
    /\ TranscriberReset
    /\ UNCHANGED <<storeVars, pubVars, extVars, flowVars>>

\* The inputs of the upload pipeline: what the services answer to the
\* requests of the view and to direct transcription requests around it.
PipelineTexts ==
    {<<>>,
     <<ValueTok([kind |-> "reply", transcript |-> Str("[00:00:01] Ana: ship it"),
                 actionItems |-> JsonNull])>>}
PipelineContents ==
    {<<>>, <<ValueTok(JsonNull)>>,
     <<ValueTok(JsonArray(<<[kind |-> "object", actionItem |-> Str("Send the report"),
                            priority |-> Str("High"), confidence |-> Num(95)]>>))>>}
PipelineBodies ==
    {[audioUrl |-> b[1], filePath |-> NULL, meetingId |-> b[2],
      audioBase64 |-> [kind |-> "data", bytes |-> 3, padded |-> TRUE, prefix |-> NULL],
      mimeType |-> NULL, fileName |-> NULL] :
        b \in {<<NULL, "m1">>, <<NULL, "m3">>, <<"a2", NULL>>}}

UploadStartStep ==
    /\ uploads < MaxUploads
    /\ \E typed \in TypedTranscripts, file \in UploadFiles :
        UploadStart("u1", typed, file)
StorageUploadReturnsStep == \E outcome \in {"ok", "error"} : StorageUploadReturns(outcome)
UploadTranscribeArrivesStep == \E keyConfigured \in BOOLEAN : UploadTranscribeArrives(keyConfigured)
PipelineAudioLoadedStep ==
    \E outcome \in {"ok", "error"} : AudioLoaded(outcome, 3, "")
PipelineGenerateReturnsStep ==
    \/ \E text \in PipelineTexts :
          GenerateReturns("ok", text, [isError |-> FALSE, words |-> {}])
    \/ \E error \in {e \in GenerateErrors : e.words = {}} :
          GenerateReturns("throw", <<>>, error)
MeetingInsertReturnsStep == \E storeFails \in BOOLEAN : MeetingInsertReturns(storeFails)
UploadExtractArrivesStep == \E keyConfigured \in BOOLEAN : UploadExtractArrives(keyConfigured)
PipelineInferenceReturnsStep ==
    \E outcome \in {"ok", "429", "throw"}, content \in PipelineContents :
        InferenceReturns(outcome, content)
MarkProcessedReturnsStep ==
    \E outcome \in {"ok", "error", "throw"} : MarkProcessedReturns(outcome)
DirectTranscribeBeginStep ==
    \E auth \in Users, body \in PipelineBodies :
        DirectTranscribeBegin(auth, body, TRUE)

NextUpload ==
    \/ UploadStartStep
    \/ StorageUploadReturnsStep
    \/ UploadTranscribeArrivesStep
    \/ PipelineAudioLoadedStep
    \/ PipelineGenerateReturnsStep
    \/ LookupReturnsStep
    \/ MeetingUpdateReturnsStep
    \/ UploadTranscribed
    \/ MeetingInsertReturnsStep
    \/ UploadExtractArrivesStep
    \/ PipelineInferenceReturnsStep
    \/ InsertReturnsStep
    \/ UploadExtracted
    \/ MarkProcessedReturnsStep
    \/ DirectTranscribeBeginStep
    \/ DirectTranscribeDelivered

\* The runs of one upload view, one after the other, with the services
\* they call.
RunStartStep ==
    /\ uploads < MaxStarts
    /\ \E typed \in {"", "typed"}, file \in {f \in UploadFiles : f.content = ""} :
          UploadStart("u1", typed, file)
RunTranscribeArrivesStep == UploadTranscribeArrives(TRUE)
RunExtractArrivesStep == UploadExtractArrives(TRUE)
RunInferenceReturnsStep ==
    \E outcome \in {"ok", "throw"} : InferenceReturns(outcome, ViewContent)
RunLookupReturnsStep == LookupReturns(FALSE, NULL)

NextRuns ==
    \/ RunStartStep
    \/ StorageUploadReturnsStep
    \/ RunTranscribeArrivesStep
    \/ PipelineAudioLoadedStep
    \/ PipelineGenerateReturnsStep
    \/ RunLookupReturnsStep
    \/ UploadTranscribed
    \/ MeetingInsertReturnsStep
    \/ RunExtractArrivesStep
    \/ RunInferenceReturnsStep
    \/ InsertReturnsStep
    \/ UploadExtracted
    \/ MarkProcessedReturnsStep

\* Every call of a run is answered: no step of a run stays enabled for ever.
SpecRuns == Init /\ [][NextRuns]_vars /\ WF_vars(NextRuns)

\* The upload pipeline of one view, with direct transcription requests
\* around it.
SpecUpload == Init /\ [][NextUpload]_vars

----------------------------------------------------------------------------
\* Vocabulary of the Publisher's properties.

Positions == 1..Len(calls)
OkPos == {k \in Positions : calls[k].outcome = "ok"}
FailPos == {k \in Positions : calls[k].outcome \in {"status", "throw"}}

\* The key the tracker gave the issue of position k (k in OkPos).
KeyOf(k) == IssueKey(Cardinality({j \in OkPos : j <= k}))

\* The entries of the failure list that name local id `id`.
ErrorsFor(id) == Cardinality({j \in 1..Len(errors) : errors[j].id = id})

RowOf(id) == CHOOSE r \in Range(action_items) : r.id = id

\* The request went through the loop and has answered.
PublishDone == pub_pc = "done" /\ pub_resp.status = 200

\* created holds one entry per succeeded creation call, in call order.
CreatedMatchesSucceeded ==
    /\ Len(createdIssues) = Cardinality(OkPos)
    /\ \A k \in OkPos :
          LET j == Cardinality({i \in OkPos : i <= k})
          IN  /\ createdIssues[j].key = KeyOf(k)
              /\ createdIssues[j].summary = pub_items[k].summary

\* C1 (as claimed): created holds exactly the succeeded items, errors holds
\* exactly one entry per item whose creation call failed and none for any
\* other item, and the key is written back onto exactly the succeeded items.
C1_AsClaimed ==
    PublishDone =>
        /\ pub_resp.created = createdIssues
        /\ CreatedMatchesSucceeded
        /\ \A id \in BatchIds :
              ErrorsFor(id) = Cardinality({k \in FailPos : calls[k].id = id})
        /\ \A id \in BatchIds :
              (RowOf(id).jira_issue_key # NoKey) <=> (\E k \in OkPos : calls[k].id = id)

\* C1 (amended): created holds one entry for exactly the items whose creation
\* call succeeded; errors holds one entry for each failed creation call, and
\* an entry for a succeeded item only when its key write-back threw; a key is
\* written only onto a succeeded item, with the key of one of its issues, and
\* every succeeded item whose write-back update the store applied carries one.
C1_PartialFailure ==
    PublishDone =>
        /\ pub_resp.created = createdIssues
        /\ CreatedMatchesSucceeded
        /\ \A id \in BatchIds :
              ErrorsFor(id) =
                  Cardinality({k \in FailPos : calls[k].id = id})
                  + Cardinality({k \in OkPos : calls[k].id = id /\ calls[k].wb = "throw"})
        /\ \A id \in {row.id : row \in Range(action_items)} :
              /\ RowOf(id).jira_issue_key # NoKey =>
                    \E k \in OkPos : /\ calls[k].id = id
                                     /\ calls[k].wb = "applied"
                                     /\ RowOf(id).jira_issue_key = KeyOf(k)
              /\ (\E k \in OkPos : calls[k].id = id /\ calls[k].wb = "applied")
                    => RowOf(id).jira_issue_key # NoKey

\* Witness of C1: a batch whose first call failed and whose second succeeded
\* and was written back.
C1_Witness ==
    /\ PublishDone
    /\ Len(calls) = 2
    /\ calls[1].outcome = "status"
    /\ calls[2].outcome = "ok" /\ calls[2].wb = "applied"
    /\ Len(errors) = 1 /\ Len(createdIssues) = 1

\* C2: the creation calls are issued one at a time in batch order: call k is
\* for item k, only the latest call can be in flight, and a request that
\* went through the loop has made exactly one call per item, whatever failed.
C2_SequentialInOrder ==
    /\ Len(calls) <= Len(pub_items)
    /\ \A k \in Positions :
          /\ calls[k].pos = k
          /\ calls[k].id = pub_items[k].id
          /\ (k < Len(calls) => calls[k].outcome # "inflight")
    /\ (pub_pc = "awaiting") <=> (\E k \in Positions : calls[k].outcome = "inflight")
    /\ PublishDone => Len(calls) = Len(pub_items)

C2_Witness ==
    /\ PublishDone
    /\ Len(calls) = 2
    /\ calls[1].outcome = "throw"
    /\ calls[2].outcome = "ok"

\* C3 (as claimed): when an item's creation call succeeds and the write-back
\* of its key fails (store error, or the write throws), the item is in
\* created, gets no entry in errors, and the remaining items are processed.
C3_WriteBackBestEffort ==
    PublishDone =>
        \A k \in OkPos :
            calls[k].wb \in {"error", "throw"} =>
                /\ \E j \in 1..Len(pub_resp.created) : pub_resp.created[j].key = KeyOf(k)
                /\ ErrorsFor(calls[k].id)
                      = Cardinality({i \in FailPos : calls[i].id = calls[k].id})
                /\ Len(calls) = Len(pub_items)

\* C4 (as claimed): a stored credential that lacks one of domain, email,
\* token, project key makes the request end "invalid configuration", with
\* no tracker call and no action item changed.
MissingCredentialField(integration) ==
    BlobFields(integration.access_token) # CredFields

C4_InvalidConfigurationFailsFast ==
    ( /\ pub_pc # "idle"
      /\ pub_user # NULL
      /\ Len(pub_items) > 0
      /\ pub_integration.present
      /\ ~TokenExpired(pub_integration)
      /\ MissingCredentialField(pub_integration) )
    => /\ calls = <<>>
       /\ action_items = InitialItems
       /\ pub_pc = "done"
       /\ pub_resp.status = 400
       /\ pub_resp.error = "Invalid Jira integration configuration"

\* C5: with no credential stored for the authenticated user, the request
\* ends "not connected" (400, "Jira integration not found"), which no
\* request that retrieved a credential ever answers, and no creation call is
\* issued.
C5_NotConnected ==
    /\ ( /\ pub_pc # "idle"
         /\ pub_user # NULL
         /\ Len(pub_items) > 0
         /\ ~integrations[pub_user].present )
       => /\ calls = <<>>
          /\ pub_pc = "done"
          /\ pub_resp = ErrorResponse(400, "Jira integration not found",
                                      "Please connect your Jira account in settings first.")
    /\ pub_resp.error = "Jira integration not found" => ~pub_integration.present
    /\ pub_integration.present /\ pub_pc = "done" /\ ~pub_resp.success
       => pub_resp.error \in {"Jira token expired", "Invalid Jira integration configuration"}

C5_Witness ==
    /\ pub_pc = "done"
    /\ pub_user = "u2"
    /\ integrations["u1"].present
    /\ ~integrations["u2"].present
    /\ Len(pub_items) > 0
    /\ pub_resp.error = "Jira integration not found"

----------------------------------------------------------------------------
\* Vocabulary of the Extractor claims.

ExtractSucceeded == ext_pc = "done" /\ ext_resp.status = 200

\* The rows this extraction request has inserted.
NewRows == {k \in 1..Len(action_items) : k > Len(InitialItems)}

\* The request is authenticated and the gateway answered with a reply.
ReplyHandled ==
    /\ ext_pc = "done"
    /\ ai_reply.outcome = "ok"
    /\ GetUser(ext_req.auth) # NULL

\* The reply is no JSON text, or JSON that is not an array of objects.
Malformed(content) ==
    LET text == StripFences(content)
    IN  \/ content # <<>> /\ ~JsonParses(text)
        \/ MapThrows(ParseReply(content))

\* C8: every action item an extraction persists or returns has a priority
\* among Low, Medium, High, the status Open, and a confidence between 0 and 1.
C8_NormalizedItems ==
    /\ \A k \in NewRows :
          /\ action_items[k].priority \in Priorities
          /\ action_items[k].status = "Open"
          /\ action_items[k].confidence >= 0 /\ action_items[k].confidence <= 100
    /\ ExtractSucceeded =>
          \A k \in 1..Len(ext_resp.actionItems) :
              /\ ext_resp.actionItems[k].priority \in {Str(p) : p \in Priorities}
              /\ ext_resp.actionItems[k].status = "Open"
              /\ ext_resp.actionItems[k].confidence.t = "number"
              /\ ext_resp.actionItems[k].confidence.n >= 0
              /\ ext_resp.actionItems[k].confidence.n <= 100

\* C9: a malformed model reply (unparseable text, fenced or not, or JSON that
\* is not an array of items) ends in success with an empty item list and
\* count 0, never in a 500, and inserts no row.
C9_MalformedReplyIsEmptyList ==
    (ReplyHandled /\ Malformed(ai_reply.content)) =>
        /\ ext_resp.status = 200
        /\ ext_resp.success
        /\ ext_resp.actionItems = <<>>
        /\ ext_resp.count = 0
        /\ NewRows = {}

\* C10: rows are inserted under a meeting only when the authenticated user
\* owns it; for a meeting of another user the request ends in an
\* authorization error and no row is inserted.
C10_OwnerOnlyInsert ==
    /\ \A k \in NewRows :
          meetings[action_items[k].meeting_id].user_id = action_items[k].user_id
    /\ ( /\ ReplyHandled
         /\ ext_req.meetingId \in MeetingIds
         /\ meetings[ext_req.meetingId].user_id # GetUser(ext_req.auth) ) =>
            /\ ext_resp.status \in {401, 403}
            /\ NewRows = {}

----------------------------------------------------------------------------
\* Vocabulary of the Transcriber's properties.

\* The size check was reached with a payload of some bytes.
SizeChecked == tr_encoded > 0

\* The inference service answered the last generate call with a reply.
ReplyReceived ==
    gen_calls # <<>> /\ gen_calls[Len(gen_calls)].outcome = "ok"

\* C15: with MAX = 25 * 1024 * 1024, audio of exactly MAX bytes passes the
\* size check and goes to inference, and audio of MAX + 1 bytes is answered
\* 413 before any inference call, also when the size is estimated from the
\* padded base64 length.
C15_SizeBoundary ==
    /\ (SizeChecked /\ tr_bytes = MAX_AUDIO_BYTES) =>
          tr_resp.status # 413 /\ gen_calls # <<>>
    /\ (SizeChecked /\ tr_bytes = MAX_AUDIO_BYTES + 1) =>
          tr_resp.status = 413 /\ gen_calls = <<>>

\* C17: a transcription request never answers success with an empty
\* transcript and never stores one: when the resolved transcript is empty
\* after trimming, the request fails and no meeting is changed.
C17_NoEmptyTranscript ==
    /\ tr_resp.status = 200 => TrimString(tr_resp.transcript) # ""
    /\ \A m \in DOMAIN meetings : TrimString(meetings[m].transcript) # ""
    /\ (tr_pc = "done" /\ ReplyReceived /\ ResolveReply(geminiText).transcript = "") =>
          /\ tr_resp.status = 500
          /\ meetings = InitialMeetings

C17_Witness ==
    /\ tr_pc = "done"
    /\ ReplyReceived
    /\ geminiText # <<>>
    /\ ResolveReply(geminiText).transcript = ""
    /\ tr_req.meetingId = "m1" /\ tr_req.auth = "u1"
    /\ tr_resp.status = 500

----------------------------------------------------------------------------
\* Vocabulary of the upload pipeline's properties.

\* An extraction step for the meeting has completed successfully.
ExtractionCompleted(m) ==
    extraction[m].upload = "done" \/ extraction[m].transcribe = "done"

----------------------------------------------------------------------------
\* Vocabulary of the persistence properties.


\* The request has issued its insert statement and the statement failed.
InsertFailed ==
    /\ ext_pc = "done"
    /\ ext_items # <<>>
    /\ ~Last(insert_calls).ok

\* C12: when the batch insert fails, none of the batch's items is persisted,
\* the answer is 500 with a message and no success, and the request has
\* issued that one insert statement only (no per-item insert, no retry).
C12_InsertAllOrNothing ==
    /\ Len(insert_calls) <= ai_calls
    /\ InsertFailed =>
          /\ Last(insert_calls).items = ext_items
          /\ Last(insert_calls).after = Last(insert_calls).before
          /\ Len(action_items) = Last(insert_calls).before
          /\ ext_resp.status = 500
          /\ ext_resp.error # NULL
          /\ ~ext_resp.success

C12_Witness ==
    /\ InsertFailed
    /\ Len(ext_items) = 2
    /\ RowAccepted(ext_items[1], GetUser(ext_req.auth))
    /\ ~RowAccepted(ext_items[2], GetUser(ext_req.auth))

\* The gateway answered the request's inference call with a failure status.
UpstreamFailed == ext_pc = "done" /\ ai_reply.outcome \in {"429", "402", "500"}

\* C16: an upstream 429 is answered 429, a 402 is answered 402, any other
\* upstream failure is answered 500; no row is inserted and the response
\* carries an error message.
C16_UpstreamStatusMapping ==
    UpstreamFailed =>
        /\ ext_resp.status = CASE ai_reply.outcome = "429" -> 429
                               [] ai_reply.outcome = "402" -> 402
                               [] OTHER -> 500
        /\ ext_resp.error # NULL
        /\ ~ext_resp.success
        /\ NewRows = {}
        /\ insert_calls = <<>>

C16_Witness ==
    /\ UpstreamFailed
    /\ ai_reply.outcome = "402"
    /\ ext_resp.status = 402
    /\ ext_req.auth \in Users

\* The rows of a meeting among the first n rows of the table (rows are
\* appended, so these are the meeting's rows when the table had n rows).
RowsOf(meeting, n) ==
    SelectSeq(SubSeq(action_items, 1, n), LAMBDA row : row.meeting_id = meeting)

\* C14: a second successful run of the request for the same meeting, user
\* and item list leaves the meeting with the rows the first run left.
C14_PersistIdempotent ==
    \A i \in 1..(Len(insert_calls) - 1) :
        ( /\ insert_calls[i].ok
          /\ insert_calls[i + 1].ok
          /\ insert_calls[i + 1].items = insert_calls[i].items ) =>
            \A m \in DOMAIN meetings :
                RowsOf(m, insert_calls[i + 1].after) = RowsOf(m, insert_calls[i].after)

----------------------------------------------------------------------------
\* Vocabulary of the meeting views' properties.

\* Every change event went to every open view and has been handled, and no
\* fetch, edit or insert is under way.
Quiescent ==
    /\ missed = {}
    /\ ext_pc # "inserting"
    /\ \A v \in Views :
          /\ channel[v] = <<>>
          /\ edit[v] = NoEdit
          /\ view_fetch[v] \in {"closed", "done"}
          /\ view_fetch[v] = "done" => joined[v]

\* C18: once every change event has been delivered in order and nothing is
\* under way, the list of every open view holds exactly the store's rows of
\* the meeting, each once, with the store's values.
C18_ViewsConverge ==
    Quiescent =>
        \A v \in Views :
            view_fetch[v] = "done" =>
                /\ Range(actionItems[v]) = VisibleRows(ViewMeeting, ViewUser)
                /\ Len(actionItems[v]) = Cardinality(VisibleRows(ViewMeeting, ViewUser))

\* The list of a view after its in-flight update is merged into it.
Merged(v) ==
    [k \in 1..Len(actionItems[v]) |->
        IF actionItems[v][k].id = edit[v].id
        THEN MergeUpdates(actionItems[v][k], edit[v].updates)
        ELSE actionItems[v][k]]

Ascending(list) ==
    \A i, j \in 1..Len(list) : i < j => list[i].created_at <= list[j].created_at

\* C13: a successful run with N items has added exactly N rows, each of the
\* request's meeting and of the authenticated user, and answers count = N;
\* the view's read of the meeting's items returns rows of the store, each
\* once, in ascending order of creation.
C13_ExactlyNRows ==
    /\ ExtractSucceeded =>
          /\ Cardinality(NewRows) = Len(ext_items)
          /\ ext_resp.count = Len(ext_items)
          /\ \A k \in NewRows :
                /\ action_items[k].meeting_id = ext_req.meetingId
                /\ action_items[k].user_id = GetUser(ext_req.auth)
                /\ action_items[k].action_item = ext_items[k - Len(InitialItems)].action_item.s
    /\ ~ExtractSucceeded => NewRows = {}
    /\ view_fetch["v1"] = "done" =>
          /\ Ascending(actionItems["v1"])
          /\ Range(actionItems["v1"]) \subseteq VisibleRows(ViewMeeting, ViewUser)
          /\ Cardinality(Range(actionItems["v1"])) = Len(actionItems["v1"])

C13_Witness ==
    /\ ExtractSucceeded
    /\ Len(ext_items) = 2
    /\ view_fetch["v1"] = "done"
    /\ Len(actionItems["v1"]) = 4

----------------------------------------------------------------------------
\* Vocabulary of the export's properties.

Exported == json.exported

\* C20: the exported JSON parses back, item by item and in order, to the
\* task, owner, contact, deadline, priority, status and notes of the
\* exported items, nulls included, and holds nothing else of them.
C20_JsonRoundTrip ==
    Exported =>
        LET items == itemsToExport(export_props)
            parsed == JsonParse(json.text)
        IN  /\ Len(parsed) = Len(items)
            /\ \A k \in 1..Len(items) :
                  /\ DOMAIN parsed[k] = ExportKeys
                  /\ parsed[k].actionItem = items[k].action_item
                  /\ parsed[k].owner = items[k].owner
                  /\ parsed[k].ownerEmail = items[k].owner_email
                  /\ parsed[k].deadline = items[k].deadline
                  /\ parsed[k].priority = items[k].priority
                  /\ parsed[k].status = items[k].status
                  /\ parsed[k].notes = items[k].notes

C20_Witness ==
    /\ Exported
    /\ Len(json.text) = 2
    /\ export_props.actionItems[1].owner = Null
    /\ export_props.actionItems[1].notes = String(<<"a", "QUOTE", "BACKSLASH", "n">>)
    /\ export_props.actionItems[1].action_item = String(<<"QUOTE", "BACKSLASH">>)

----------------------------------------------------------------------------
\* C21: a transcription request calls the primary model first; the fixed
\* secondary model is called once, and only after a primary error whose
\* message holds "model" and one of "not found", "unsupported", "permission
\* denied"; any other primary error and any secondary error fails the
\* request; at most two inference calls are made, and the model reported is
\* the one that produced the reply.
ModelErrorWords == {"not found", "unsupported", "permission denied"}
Replied(call) == call.outcome = "ok"
Threw(call) == call.outcome = "throw"
C21_FallbackOnce ==
    /\ Len(gen_calls) <= 2
    /\ gen_calls # <<>> => gen_calls[1].model = configuredModel
    /\ Len(gen_calls) = 2 =>
          /\ gen_calls[2].model = FALLBACK_GEMINI_MODEL
          /\ Threw(gen_calls[1])
          /\ "model" \in gen_calls[1].error.words
          /\ gen_calls[1].error.words \cap ModelErrorWords # {}
    /\ (gen_calls # <<>> /\ Threw(Last(gen_calls)) /\ tr_pc # "fallback") =>
          tr_pc = "done" /\ tr_resp.status = 500 /\ tr_resp.model = NULL
    /\ tr_resp.status = 200 =>
          Replied(Last(gen_calls)) /\ tr_resp.model = Last(gen_calls).model

\* The secondary model produced the reply and is the model reported.
C21_Witness ==
    /\ Len(gen_calls) = 2
    /\ Replied(gen_calls[2])
    /\ tr_resp.status = 200
    /\ tr_resp.model = FALLBACK_GEMINI_MODEL

----------------------------------------------------------------------------
\* C22: normalization keeps every candidate: the items of a successful
\* transcription answer are as many as the candidates of the model reply, a
\* candidate without task text included.
ReplyCandidates ==
    LET parsed == parseGeminiJson(geminiText)
    IN  IF parsed.kind = "reply" /\ parsed.actionItems.kind = "array"
        THEN parsed.actionItems.items ELSE <<>>
C22_KeepsEveryCandidate ==
    tr_resp.status = 200 => Len(tr_resp.actionItems) = Len(ReplyCandidates)

----------------------------------------------------------------------------
\* C23: the media type of every inference call is the caller's type when the
\* request gives one; else the type of the data-URI prefix of the inline
\* payload; else the type the extension table gives for the file name; else
\* audio/mpeg.
ClaimedMediaType(body) ==
    IF body.mimeType # NULL /\ TrimString(body.mimeType) # ""
        THEN TrimString(body.mimeType)
    ELSE IF body.audioBase64.kind = "data" /\ body.audioBase64.prefix # NULL
        THEN body.audioBase64.prefix
    ELSE inferMimeType(getFileName(body.filePath, body.audioUrl, body.fileName), NULL)
C23_MediaTypePrecedence ==
    \A i \in DOMAIN gen_calls : gen_calls[i].mimeType = ClaimedMediaType(tr_req)

----------------------------------------------------------------------------
\* C24: a transcription request without meetingId changes at most one
\* meeting row, and only a meeting of the caller with the given audio URL
\* that no other such meeting was created after; when no meeting matches,
\* the answer has meetingUpdated false.
Matches(m, user, url) ==
    meetings[m].user_id = user /\ meetings[m].audio_url = url
MostRecent(m, user, url) ==
    /\ Matches(m, user, url)
    /\ \A o \in DOMAIN meetings :
          Matches(o, user, url) => meetings[o].created_at <= meetings[m].created_at
ChangedMeetings == {m \in DOMAIN meetings : meetings'[m] # meetings[m]}
C24_LookupChangesOne ==
    [][(tr_pc # "idle" /\ tr_req.meetingId = NULL) =>
          /\ DOMAIN meetings' = DOMAIN meetings
          /\ Cardinality(ChangedMeetings) <= 1
          /\ \A m \in ChangedMeetings :
                MostRecent(m, GetUser(tr_req.auth), tr_req.audioUrl)
          /\ (tr_pc' = "done" /\ tr_resp'.status = 200
               /\ \A m \in DOMAIN meetings :
                     ~Matches(m, GetUser(tr_req.auth), tr_req.audioUrl))
              => ~tr_resp'.meetingUpdated]_vars

\* The later of the caller's two meetings with the URL was updated; the
\* earlier one and the other user's meeting with the same URL were not.
C24_Witness ==
    /\ tr_pc = "done"
    /\ tr_req.meetingId = NULL
    /\ tr_resp.meetingUpdated
    /\ \E m, o \in DOMAIN meetings :
          /\ meetings[m].processed_at = "now"
          /\ Matches(o, meetings[m].user_id, meetings[m].audio_url)
          /\ meetings[o].created_at < meetings[m].created_at
          /\ meetings[o].processed_at = NULL
    /\ \E x \in DOMAIN meetings :
          /\ meetings[x].user_id # GetUser(tr_req.auth)
          /\ meetings[x].audio_url = tr_req.audioUrl
          /\ meetings[x].processed_at = NULL

----------------------------------------------------------------------------
\* C25: for an extraction request without a credential, or with one that
\* getUser rejects, no inference call is issued and no row is written, and
\* the answer is 401 whatever the inference service answers.
Rejected(auth) == auth = "none" \/ GetUser(auth) = NULL
C25_UnauthorizedBeforeInference ==
    (ext_pc # "idle" /\ Rejected(ext_req.auth)
     /\ ext_req.transcript # NULL /\ ext_req.meetingId # NULL) =>
        /\ ai_calls = 0
        /\ insert_calls = <<>>
        /\ (ext_pc = "done" /\ ext_resp.error # "LOVABLE_API_KEY is not configured")
           => ext_resp.status = 401

----------------------------------------------------------------------------
\* C26: whatever the order of the initial fetch and the change events, the
\* list of a view never holds two entries with the same item id.
C26_NoDuplicateIds ==
    \A v \in Views :
        \A i, j \in DOMAIN actionItems[v] :
            actionItems[v][i].id = actionItems[v][j].id => i = j

----------------------------------------------------------------------------
\* C27: a meeting view has at most one subscription, the one of the meeting
\* it shows: none is left from a meeting shown before or from a view that
\* was closed, and once the fetch has answered every item of the list
\* belongs to the meeting shown.
C27_OneLiveSubscription ==
    \A v \in Views :
        /\ Cardinality(subscribed[v]) <= 1
        /\ subscribed[v] \subseteq {shown[v]} \ {NULL}
        /\ view_fetch[v] = "done" =>
              \A k \in DOMAIN actionItems[v] : actionItems[v][k].meeting_id = shown[v]

----------------------------------------------------------------------------
\* C28: once signOut has completed, user and session are null and the cache
\* item is gone, until a sign-in event arrives, whatever the session restore
\* started on load does in between.
C28_SignedOutStays ==
    signedOut => auth_user = NULL /\ auth_session = NULL /\ cache = NULL

----------------------------------------------------------------------------
\* C29: in the upload view a run starts only while no run is in flight; the
\* stages of a run follow each other in the order upload, transcribe, create
\* meeting, extract, mark processed, each service call answered before the
\* next stage; and every run ends with isProcessing false.
StageOrder ==
    {<<"idle", "storing">>, <<"idle", "creating">>, <<"storing", "transcribing">>,
     <<"transcribing", "creating">>, <<"creating", "extracting">>,
     <<"extracting", "marking">>}
    \cup {<<stage, "idle">> : stage \in {"storing", "transcribing", "creating",
                                         "extracting", "marking"}}
RunInFlight == up_pc # "idle"
----------------------------------------------------------------------------
\* C30: a publish request of a signed-in user whose stored credential has an
\* expiry in the past is answered 401 "Jira token expired" with the advice to
\* reconnect (not the answer of a missing or of an invalid credential); no
\* creation call is issued and no action item is changed.
ExpiredCredentialFound ==
    /\ pub_pc # "idle"
    /\ pub_user # NULL
    /\ pub_integration.present
    /\ pub_integration.expires_at = "past"
C30_ExpiredTokenRejected ==
    ExpiredCredentialFound =>
        /\ pub_pc = "done"
        /\ pub_resp.status = 401
        /\ pub_resp.error = "Jira token expired"
        /\ pub_resp.message = "Please reconnect your Jira account."
        /\ calls = <<>>
        /\ action_items = InitialItems

\* The expired credential is otherwise complete, and the request names items.
C30_Witness ==
    /\ ExpiredCredentialFound
    /\ ~InvalidConfiguration(pub_integration)
    /\ pub_items # <<>>
    /\ pub_resp.status = 401
====
